---------------------------- MODULE Spec2Model ----------------------------
(***************************************************************************)
(* AI-Code-Detector: the three heuristic engines (DetectionEngine,         *)
(* PatternAnalyzer, SuggestionGenerator) as operators over the submitted   *)
(* text, and the calls made to them as a state machine.                    *)
(*                                                                         *)
(* The text is a TLA+ string; a character is a string of length 1.  The    *)
(* regular expressions of the source are values (alternatives of items)    *)
(* run by a backtracking matcher with the semantics of the JavaScript      *)
(* engine: leftmost match, alternatives in order, greedy repetition.       *)
(***************************************************************************)
EXTENDS Integers, Sequences, FiniteSets, TLC

(***************************************************************************)
(* Characters and strings                                                  *)
(***************************************************************************)
Lower == {"a","b","c","d","e","f","g","h","i","j","k","l","m",
          "n","o","p","q","r","s","t","u","v","w","x","y","z"}

Upper == {"A","B","C","D","E","F","G","H","I","J","K","L","M",
          "N","O","P","Q","R","S","T","U","V","W","X","Y","Z"}

Digit == {"0","1","2","3","4","5","6","7","8","9"}

\* \w
WordChar == Lower \cup Upper \cup Digit \cup {"_"}

\* \s, and the characters String.prototype.trim strips
WhiteSpace == {" ", "\t", "\n", "\r", "\f"}

\* the characters . does not match
LineTerminator == {"\n", "\r"}

ToLowerCase ==
  [c \in Upper |->
     CASE c = "A" -> "a" [] c = "B" -> "b" [] c = "C" -> "c" [] c = "D" -> "d"
       [] c = "E" -> "e" [] c = "F" -> "f" [] c = "G" -> "g" [] c = "H" -> "h"
       [] c = "I" -> "i" [] c = "J" -> "j" [] c = "K" -> "k" [] c = "L" -> "l"
       [] c = "M" -> "m" [] c = "N" -> "n" [] c = "O" -> "o" [] c = "P" -> "p"
       [] c = "Q" -> "q" [] c = "R" -> "r" [] c = "S" -> "s" [] c = "T" -> "t"
       [] c = "U" -> "u" [] c = "V" -> "v" [] c = "W" -> "w" [] c = "X" -> "x"
       [] c = "Y" -> "y" [] c = "Z" -> "z"]

CharAt(s, i) == SubSeq(s, i, i)

\* canonical form of a character under the i flag
Fold(c) == IF c \in Upper THEN ToLowerCase[c] ELSE c

\* s[pos .. pos+Len(lit)-1] equals lit up to letter case
SameFolded(s, pos, lit) ==
  \A j \in 1..Len(lit) : Fold(CharAt(s, pos + j - 1)) = Fold(CharAt(lit, j))

\* the literal lit occurs in s at position pos
LitAt(s, pos, lit, ignoreCase) ==
  /\ pos + Len(lit) - 1 <= Len(s)
  /\ IF ignoreCase THEN SameFolded(s, pos, lit)
     ELSE SubSeq(s, pos, pos + Len(lit) - 1) = lit

StartsWith(s, prefix) == LitAt(s, 1, prefix, FALSE)

(***************************************************************************)
(* The scans below are recursive by halves, so that the depth of the       *)
(* evaluation grows with the logarithm of the length of the text; the      *)
(* order in which positions are tried is that of the left-to-right loop.   *)
(***************************************************************************)
RECURSIVE FirstOccurrence(_, _, _, _)
\* the first position in a..b at which sub occurs in s, 0 when there is none
FirstOccurrence(s, sub, a, b) ==
  IF a > b THEN 0
  ELSE IF a = b THEN (IF LitAt(s, a, sub, FALSE) THEN a ELSE 0)
  ELSE LET mid  == (a + b) \div 2
           left == FirstOccurrence(s, sub, a, mid)
       IN  IF left > 0 THEN left ELSE FirstOccurrence(s, sub, mid + 1, b)

\* String.prototype.includes
Includes(s, sub) == FirstOccurrence(s, sub, 1, Len(s) - Len(sub) + 1) > 0

RECURSIVE SplitRange(_, _, _)
\* s[a..b] split at its line feeds
SplitRange(s, a, b) ==
  IF a > b THEN <<"">>
  ELSE IF a = b THEN (IF CharAt(s, a) = "\n" THEN <<"", "">> ELSE <<CharAt(s, a)>>)
  ELSE LET mid   == (a + b) \div 2
           left  == SplitRange(s, a, mid)
           right == SplitRange(s, mid + 1, b)
       IN     SubSeq(left, 1, Len(left) - 1)
           \o <<left[Len(left)] \o right[1]>>
           \o SubSeq(right, 2, Len(right))

\* code.split('\n'): never empty, <<"">> for the empty string
SplitLines(code) == SplitRange(code, 1, Len(code))

RECURSIVE SpacePrefix(_, _, _)
\* the number of white space characters s[a..b] begins with
SpacePrefix(s, a, b) ==
  IF a > b THEN 0
  ELSE IF a = b THEN (IF CharAt(s, a) \in WhiteSpace THEN 1 ELSE 0)
  ELSE LET mid  == (a + b) \div 2
           left == SpacePrefix(s, a, mid)
       IN  IF left < mid - a + 1 THEN left ELSE left + SpacePrefix(s, mid + 1, b)

RECURSIVE SpaceSuffix(_, _, _)
\* the number of white space characters s[a..b] ends with
SpaceSuffix(s, a, b) ==
  IF a > b THEN 0
  ELSE IF a = b THEN (IF CharAt(s, a) \in WhiteSpace THEN 1 ELSE 0)
  ELSE LET mid   == (a + b) \div 2
           right == SpaceSuffix(s, mid + 1, b)
       IN  IF right < b - mid THEN right ELSE right + SpaceSuffix(s, a, mid)

\* String.prototype.trim
Trim(s) ==
  LET lead == SpacePrefix(s, 1, Len(s))
  IN  IF lead = Len(s) THEN ""
      ELSE SubSeq(s, lead + 1, Len(s) - SpaceSuffix(s, 1, Len(s)))

\* the elements of a sequence
Range(seq) == {seq[i] : i \in 1..Len(seq)}

RECURSIVE SumRange(_, _, _)
SumRange(xs, a, b) ==
  IF a > b THEN 0
  ELSE IF a = b THEN xs[a]
  ELSE LET mid == (a + b) \div 2
       IN  SumRange(xs, a, mid) + SumRange(xs, mid + 1, b)

\* Array.prototype.reduce((sum, x) => sum + x, 0)
Sum(xs) == SumRange(xs, 1, Len(xs))

(***************************************************************************)
(* Regular expressions.  A regular expression is                           *)
(*   [alts |-> sequence of alternatives, i |-> the i flag],                *)
(* an alternative is a sequence of items, and an item is a literal, a      *)
(* choice of literals, a repeated character class or an assertion.         *)
(* hi = -1 stands for an unbounded repetition.                             *)
(***************************************************************************)
Lit(str)              == [t |-> "lit", str |-> str]
OneOf(strs)           == [t |-> "oneof", strs |-> strs]
Between(set, lo, hi)  == [t |-> "in", set |-> set, lo |-> lo, hi |-> hi]
Star(set)             == Between(set, 0, -1)
Plus(set)             == Between(set, 1, -1)
AtLeast(set, n)       == Between(set, n, -1)
One(set)              == Between(set, 1, 1)
NotBetween(set, lo, hi) == [t |-> "notin", set |-> set, lo |-> lo, hi |-> hi]
NotStar(set)          == NotBetween(set, 0, -1)
NotPlus(set)          == NotBetween(set, 1, -1)
NotAtLeast(set, n)    == NotBetween(set, n, -1)
AnyStar               == NotStar(LineTerminator)
WordBoundary          == [t |-> "b"]
EndOfInput            == [t |-> "$"]
StartOfInput          == [t |-> "^"]

RegExp(alts)          == [alts |-> alts, i |-> FALSE]
RegExpI(alts)         == [alts |-> alts, i |-> TRUE]

InClass(c, it) == IF it.t = "in" THEN c \in it.set ELSE c \notin it.set

IsWordAt(s, p) == p >= 1 /\ p <= Len(s) /\ CharAt(s, p) \in WordChar

\* \b at position pos (between pos-1 and pos)
AtWordBoundary(s, pos) == IsWordAt(s, pos - 1) # IsWordAt(s, pos)

RECURSIVE ClassPrefix(_, _, _, _)
\* the number of characters of the class s[a..b] begins with
ClassPrefix(s, it, a, b) ==
  IF a > b THEN 0
  ELSE IF a = b THEN (IF InClass(CharAt(s, a), it) THEN 1 ELSE 0)
  ELSE LET mid  == (a + b) \div 2
           left == ClassPrefix(s, it, a, mid)
       IN  IF left < mid - a + 1 THEN left ELSE left + ClassPrefix(s, it, mid + 1, b)

\* how many of the characters from pos on the repetition takes, greedily
RunLength(s, pos, it) ==
  ClassPrefix(s, it, pos,
              IF it.hi >= 0 /\ pos + it.hi - 1 < Len(s) THEN pos + it.hi - 1 ELSE Len(s))

RECURSIVE MatchItems(_, _, _, _, _)
RECURSIVE TryRepeat(_, _, _, _, _, _, _)
RECURSIVE TryChoice(_, _, _, _, _, _)

\* the position after the match of items[k..] at pos, -1 when there is none
MatchItems(items, k, s, pos, ignoreCase) ==
  IF k > Len(items) THEN pos
  ELSE LET it == items[k]
       IN  CASE it.t = "lit" ->
                  IF LitAt(s, pos, it.str, ignoreCase)
                  THEN MatchItems(items, k + 1, s, pos + Len(it.str), ignoreCase)
                  ELSE -1
             [] it.t = "oneof" -> TryChoice(items, k, s, pos, 1, ignoreCase)
             [] it.t = "b" ->
                  IF AtWordBoundary(s, pos)
                  THEN MatchItems(items, k + 1, s, pos, ignoreCase) ELSE -1
             [] it.t = "$" ->
                  IF pos = Len(s) + 1
                  THEN MatchItems(items, k + 1, s, pos, ignoreCase) ELSE -1
             [] it.t = "^" ->
                  IF pos = 1
                  THEN MatchItems(items, k + 1, s, pos, ignoreCase) ELSE -1
             [] OTHER ->
                  TryRepeat(items, k, s, pos, it.lo, RunLength(s, pos, it), ignoreCase)

\* greedy repetition: the rest of the items after hi characters of the class,
\* then after hi - 1, ..., down to lo; the first that matches
TryRepeat(items, k, s, pos, lo, hi, ignoreCase) ==
  IF lo > hi THEN -1
  ELSE IF lo = hi THEN MatchItems(items, k + 1, s, pos + lo, ignoreCase)
  ELSE LET mid   == (lo + hi + 1) \div 2
           upper == TryRepeat(items, k, s, pos, mid, hi, ignoreCase)
       IN  IF upper >= 0 THEN upper
           ELSE TryRepeat(items, k, s, pos, lo, mid - 1, ignoreCase)

\* (?:a|b|c): the literals in order
TryChoice(items, k, s, pos, j, ignoreCase) ==
  IF j > Len(items[k].strs) THEN -1
  ELSE LET lit == items[k].strs[j]
           r == IF LitAt(s, pos, lit, ignoreCase)
                THEN MatchItems(items, k + 1, s, pos + Len(lit), ignoreCase)
                ELSE -1
       IN  IF r >= 0 THEN r ELSE TryChoice(items, k, s, pos, j + 1, ignoreCase)

\* the end of a match when there is one, what the next attempt gives otherwise
OrElse(end, next) == IF end >= 0 THEN end ELSE next

RECURSIVE MatchAlts(_, _, _, _)
\* the position after the match of the first alternative that matches at pos
MatchAlts(re, s, pos, a) ==
  IF a > Len(re.alts) THEN -1
  ELSE OrElse(MatchItems(re.alts[a], 1, s, pos, re.i), MatchAlts(re, s, pos, a + 1))

NoMatch == [index |-> 0, end |-> 0]

\* the match [index, end) when the alternatives matched at index up to end
MatchAt(index, end) == IF end >= 0 THEN [index |-> index, end |-> end] ELSE NoMatch

RECURSIVE FirstMatch(_, _, _, _)
\* the match at the first position in a..b that has one
FirstMatch(re, s, a, b) ==
  IF a > b THEN NoMatch
  ELSE IF a = b THEN MatchAt(a, MatchAlts(re, s, a, 1))
  ELSE LET mid  == (a + b) \div 2
           left == FirstMatch(re, s, a, mid)
       IN  IF left.index > 0 THEN left ELSE FirstMatch(re, s, mid + 1, b)

\* RegExp.prototype.exec from position p (1-based): the leftmost match
\* [index, end), or index = 0 when there is none
ExecFrom(re, s, p) == FirstMatch(re, s, p, Len(s) + 1)

\* RegExp.prototype.test of a regular expression without the g flag
Test(re, s) == ExecFrom(re, s, 1).index > 0

\* the run a single search from p makes: one match or none
SingleRun(m, p) ==
  IF m.index = 0 THEN [count |-> 0, next |-> p, more |-> FALSE]
  ELSE [count |-> 1, more |-> TRUE,
        next  |-> IF m.end = m.index THEN m.end + 1 ELSE m.end]

RECURSIVE MatchRun(_, _, _, _)
\* up to 2^k successive matches from p on: how many, where the next search
\* starts (an empty match advances by one), and whether the last search matched
MatchRun(re, s, p, k) ==
  IF k = 0 THEN SingleRun(ExecFrom(re, s, p), p)
  ELSE LET first == MatchRun(re, s, p, k - 1)
       IN  IF ~first.more THEN first
           ELSE LET rest == MatchRun(re, s, first.next, k - 1)
                IN  [count |-> first.count + rest.count, next |-> rest.next,
                     more  |-> rest.more]

RECURSIVE CountRuns(_, _, _, _)
\* the matches of run and of the runs after it, each twice as long as the last
CountRuns(run, re, s, k) ==
  IF ~run.more THEN run.count
  ELSE run.count + CountRuns(MatchRun(re, s, run.next, k + 1), re, s, k + 1)

\* the number of successive matches from p on
CountFrom(re, s, p) == CountRuns(MatchRun(re, s, p, 0), re, s, 0)

\* String.prototype.match with a g regular expression: null, or the array of
\* all matches (of which the callers read the length alone)
MatchArray(n) == IF n = 0 THEN [null |-> TRUE] ELSE [null |-> FALSE, length |-> n]

MatchAll(re, s) == MatchArray(CountFrom(re, s, 1))

\* matches !== null && matches.length > n
LongerThan(matches, n) == ~matches.null /\ matches.length > n

(***************************************************************************)
(* JavaScript numbers.  A quotient is held as [num, den]: den = 0 is NaN   *)
(* (0/0) or Infinity (x/0, x > 0), and every comparison with NaN is false. *)
(* A number of a DetectionResult, which the engine rounds to two decimals, *)
(* is held as its count of hundredths (36.5 is 3650).                      *)
(***************************************************************************)
Quotient(a, b) == [num |-> a, den |-> b]

IsNaN(q) == q.den = 0 /\ q.num = 0

IsFinite(q) == q.den # 0

\* q > a/b, for b > 0
Greater(q, a, b) ==
  IF q.den = 0 THEN q.num > 0 ELSE q.num * b > a * q.den

\* q < a/b, for b > 0
Less(q, a, b) ==
  IF q.den = 0 THEN q.num < 0 ELSE q.num * b < a * q.den

Max(a, b) == IF a >= b THEN a ELSE b

Min(a, b) == IF a <= b THEN a ELSE b

RECURSIVE SqrtDown(_, _, _)
\* the largest r in lo..hi with r * r <= n, by bisection (lo * lo <= n);
\* mid <= n \div mid is mid * mid <= n without the large product
SqrtDown(n, lo, hi) ==
  IF lo >= hi THEN lo
  ELSE LET mid == (lo + hi + 1) \div 2
       IN  IF mid <= n \div mid THEN SqrtDown(n, mid, hi) ELSE SqrtDown(n, lo, mid - 1)

\* floor(sqrt(n))
FloorSqrt(n) == SqrtDown(n, 0, n)

\* Math.round(a - sqrt(n)), a an integer: Math.round takes a half upwards
RoundMinusSqrt(a, n) ==
  LET f == FloorSqrt(n)
  IN  IF f * f = n THEN a - f
      ELSE IF 4 * n <= (2 * f + 1) * (2 * f + 1) THEN a - f
      ELSE a - f - 1

\* Math.round(x * 100) of an integer x: its hundredths
Hundredths(x) == 100 * x

(***************************************************************************)
(* DetectionEngine                                                         *)
(***************************************************************************)
NonBlank(line) == Len(Trim(line)) > 0

NonBlankLines(code) == SelectSeq(SplitLines(code), NonBlank)

IsCommentLine(line) ==
  LET trimmed == Trim(line)
  IN  \/ StartsWith(trimmed, "//")
      \/ StartsWith(trimmed, "/*")
      \/ StartsWith(trimmed, "*")
      \/ StartsWith(trimmed, "#")

CommentLineCount(code) == Len(SelectSeq(SplitLines(code), IsCommentLine))

\* variant: the upper bucket from 30 percent on, not above 30 percent
calculateCommentDensityFrom30(code) ==
  LET commentLines == CommentLineCount(code)
      totalLines   == Len(NonBlankLines(code))
  IN  IF totalLines = 0 THEN 0
      ELSE IF commentLines * 100 >= 30 * totalLines THEN 75
      ELSE IF commentLines * 100 < 5 * totalLines THEN 20
      ELSE 50

\* variant: the two outer buckets exchanged
calculateCommentDensityExchanged(code) ==
  LET commentLines == CommentLineCount(code)
      totalLines   == Len(NonBlankLines(code))
  IN  IF totalLines = 0 THEN 0
      ELSE IF commentLines * 100 > 30 * totalLines THEN 20
      ELSE IF commentLines * 100 < 5 * totalLines THEN 75
      ELSE 50

\* the bucket of commentLines comment lines among totalLines non-blank lines
CommentDensityOf(commentLines, totalLines) ==
  LET density == Quotient(commentLines * 100, totalLines)
  IN  IF totalLines = 0 THEN 0
      ELSE IF Greater(density, 30, 1) THEN 75
      ELSE IF Less(density, 5, 1) THEN 20
      ELSE 50

calculateCommentDensity(code) ==
  CommentDensityOf(CommentLineCount(code), Len(NonBlankLines(code)))

indentationPattern == RegExp(<< <<StartOfInput, Star(WhiteSpace)>> >>)

\* match ? match[1].length : 0
MatchLength(m) == IF m.index = 0 THEN 0 ELSE m.end - m.index

IndentOf(line) == MatchLength(ExecFrom(indentationPattern, line, 1))

IndentsOf(lines) == {IndentOf(lines[i]) : i \in 1..Len(lines)}

checkIndentation(code) ==
  LET indents       == IndentsOf(NonBlankLines(code))
      uniqueIndents == {n \in indents : n > 0}
  IN  Cardinality(uniqueIndents) <= 6

properSpacingPatterns ==
  << RegExp(<< <<Star(WhiteSpace), Lit("="), Star(WhiteSpace)>> >>),
     RegExp(<< <<Star(WhiteSpace), Lit("+"), Star(WhiteSpace)>> >>),
     RegExp(<< <<Star(WhiteSpace), Lit("-"), Star(WhiteSpace)>> >>),
     RegExp(<< <<Star(WhiteSpace), Lit("*"), Star(WhiteSpace)>> >>),
     RegExp(<< <<Lit("{"), Star(WhiteSpace), EndOfInput>> >>),
     RegExp(<< <<Lit("}"), Star(WhiteSpace), EndOfInput>> >>) >>

checkSpacing(code) ==
  LET matchCount ==
        Cardinality({k \in 1..Len(properSpacingPatterns) :
                       Test(properSpacingPatterns[k], code)})
  IN  matchCount >= 3

logicalBlockPattern ==
  RegExp(<< <<Lit("function"), Plus(WhiteSpace), Plus(WordChar)>>,
            <<Lit("const"), Plus(WhiteSpace), Plus(WordChar), Star(WhiteSpace),
              Lit("="), Star(WhiteSpace), Lit("(")>>,
            <<Lit("class"), Plus(WhiteSpace), Plus(WordChar)>> >>)

checkLogicalBlocks(code) == LongerThan(MatchAll(logicalBlockPattern, code), 0)

StructureOf(structureScore) ==
  IF structureScore > 80 THEN 70
  ELSE IF structureScore < 40 THEN 30
  ELSE 50

analyzeCodeStructure(code) ==
  StructureOf(  (IF checkIndentation(code) THEN 33 ELSE 0)
              + (IF checkSpacing(code) THEN 33 ELSE 0)
              + (IF checkLogicalBlocks(code) THEN 34 ELSE 0))

camelCasePattern ==
  RegExp(<< <<WordBoundary, One(Lower), Star(Lower \cup Upper \cup Digit),
              WordBoundary>> >>)

descriptiveNamePattern ==
  RegExp(<< <<WordBoundary, AtLeast(Lower, 4), One(Upper), Plus(Lower),
              WordBoundary>> >>)

\* (code.match(re) || []).length
MatchCount(re, code) == CountFrom(re, code, 1)

\* Math.min(ratio, 100) against the two thresholds
NamingScore(ratio) ==
  LET namingScore == IF Greater(ratio, 100, 1) THEN Quotient(100, 1) ELSE ratio
  IN  IF Greater(namingScore, 40, 1) THEN 65
      ELSE IF Less(namingScore, 10, 1) THEN 35
      ELSE 50

analyzeNamingPatterns(code) ==
  LET camelCaseMatches   == MatchCount(camelCasePattern, code)
      descriptiveMatches == MatchCount(descriptiveNamePattern, code)
  IN  NamingScore(Quotient(descriptiveMatches * 100, Max(camelCaseMatches, 1)))

controlFlowKeywords == <<"if", "else", "for", "while", "switch", "case">>

\* new RegExp(`\\b${keyword}\\b`, 'g')
KeywordRegExp(keyword) == RegExp(<< <<WordBoundary, Lit(keyword), WordBoundary>> >>)

LengthsOf(lines) == [i \in 1..Len(lines) |-> Len(lines[i])]

LineLengths(code) == LengthsOf(NonBlankLines(code))

\* the mean length of the non-blank lines: 0/0 when there are none
Mean(lengths) == Quotient(Sum(lengths), Len(lengths))

avgLineLength(code) == Mean(LineLengths(code))

controlFlowCount(code) ==
  Sum([k \in 1..Len(controlFlowKeywords) |->
         MatchCount(KeywordRegExp(controlFlowKeywords[k]), code)])

complexityRatio(code) ==
  Quotient(controlFlowCount(code), Len(NonBlankLines(code)))

\* the bucket of the mean line length and the control flow ratio
ComplexityOf(avg, ratio) ==
  IF Greater(avg, 80, 1) /\ Greater(ratio, 2, 10) THEN 70
  ELSE IF Less(avg, 30, 1) /\ Less(ratio, 1, 10) THEN 40
  ELSE 55

analyzeComplexity(code) == ComplexityOf(avgLineLength(code), complexityRatio(code))

\* the variance of the non-blank lines' lengths,
\* (n * sum of squares - square of the sum) / n^2: 0/0 when there are none
Variance(lengths) ==
  LET n       == Len(lengths)
      sum     == Sum(lengths)
      squares == Sum([i \in 1..n |-> lengths[i] * lengths[i]])
  IN  Quotient(n * squares - sum * sum, n * n)

lineLengthVariance(code) == Variance(LineLengths(code))

\* stdDev < 20 is variance < 400, stdDev > 50 is variance > 2500
UniformityOf(variance) ==
  IF Less(variance, 400, 1) THEN 75
  ELSE IF Greater(variance, 2500, 1) THEN 40
  ELSE 55

analyzeUniformity(code) == UniformityOf(lineLengthVariance(code))

\* variant: every metric with the same weight
evenWeights ==
  [commentDensity |-> 20, codeStructureScore |-> 20, namingPatternScore |-> 20,
   complexityScore |-> 20, uniformityScore |-> 20]

\* the weights, in hundredths
weights ==
  [commentDensity |-> 15, codeStructureScore |-> 25, namingPatternScore |-> 20,
   complexityScore |-> 20, uniformityScore |-> 20]

ScoreNames ==
  {"commentDensity", "codeStructureScore", "namingPatternScore",
   "complexityScore", "uniformityScore"}

\* variant: the metrics added up without weights and without the clamp
calculateAIProbabilityUnweighted(scores) ==
  100 * (  scores.commentDensity + scores.codeStructureScore
         + scores.namingPatternScore + scores.complexityScore
         + scores.uniformityScore)

\* the probability in hundredths, clamped to [0, 100]
calculateAIProbability(scores) ==
  LET probability ==
          scores.commentDensity * weights.commentDensity
        + scores.codeStructureScore * weights.codeStructureScore
        + scores.namingPatternScore * weights.namingPatternScore
        + scores.complexityScore * weights.complexityScore
        + scores.uniformityScore * weights.uniformityScore
  IN  Max(0, Min(10000, probability))

\* 25 times the variance of the five values: 5 * sum of squares - square of the sum
SpreadOf(scores) ==
  LET values  == <<scores.commentDensity, scores.codeStructureScore,
                   scores.namingPatternScore, scores.complexityScore,
                   scores.uniformityScore>>
      sum     == Sum(values)
      squares == Sum([i \in 1..Len(values) |-> values[i] * values[i]])
  IN  Len(values) * squares - sum * sum

\* Math.round(100 * max(50, min(100, 100 - 1.5 * stdDev))), the confidence in
\* hundredths: 150 * stdDev = 30 * sqrt(SpreadOf) = sqrt(900 * SpreadOf)
\* variant: 100 - 2 * stdDev
calculateConfidenceTwice(scores) ==
  Max(5000, Min(10000, RoundMinusSqrt(10000, 1600 * SpreadOf(scores))))

calculateConfidence(scores) ==
  Max(5000, Min(10000, RoundMinusSqrt(10000, 900 * SpreadOf(scores))))

\* the five metrics analyzeCode computes from the text
MetricBundle(code) ==
  [commentDensity     |-> calculateCommentDensity(code),
   codeStructureScore |-> analyzeCodeStructure(code),
   namingPatternScore |-> analyzeNamingPatterns(code),
   complexityScore    |-> analyzeComplexity(code),
   uniformityScore    |-> analyzeUniformity(code)]

\* the DetectionResult analyzeCode builds from the five metrics, every number
\* in hundredths
DetectionResult(scores) ==
  [aiProbability   |-> calculateAIProbability(scores),
   detectionMethod |-> "hybrid-analysis",
   confidenceScore |-> calculateConfidence(scores),
   analysisDetails |-> [n \in ScoreNames |-> Hundredths(scores[n])]]

DetectionEngineAnalyzeCode(code, language) == DetectionResult(MetricBundle(code))

(***************************************************************************)
(* Outcomes of a call: a returned value, or an exception that propagates   *)
(* to the caller.                                                          *)
(***************************************************************************)
Return(v) == [called |-> TRUE, threw |-> FALSE, value |-> v]

Throw(e) == [called |-> TRUE, threw |-> TRUE, error |-> e]

NotCalled == [called |-> FALSE]

Returned(o) == o.called /\ ~o.threw

(***************************************************************************)
(* Regular expressions with the g flag keep lastIndex between calls of     *)
(* test().  Every regular expression of the engines is a literal inside a  *)
(* method body, evaluated anew (a new object, lastIndex 0) by each call of *)
(* the method; regexState holds the lastIndex each of these objects was    *)
(* left with by the last call that used it.                                *)
(***************************************************************************)
VARIABLES
  input,        \* [code, language, fileName]: the arguments given to the engines
  scores,       \* the five metrics of the analysis in progress
  detection,    \* outcome of DetectionEngine.analyzeCode on them
  patterns,     \* outcome of PatternAnalyzer.detectPatterns on them
  suggestions,  \* outcome of SuggestionGenerator.generateSuggestions on them
  regexState,   \* lastIndex of the g regular expressions used with test()
  memo,         \* the arguments and outcomes of one earlier round of calls
  scanner,      \* findLongFunctions between two lines: [idx, line, st, outer]
  analysis,     \* the call of analyzeCode (the coordinator) in progress
  retrieval,    \* the call of getSubmissionDetails in progress
  store,        \* the session user and the rows of the four tables
  dashboard     \* the Dashboard: its state and its handlers awaiting a call

\* the regular expression hoisted out of the method into one shared object:
\* a test() call acts on the lastIndex the previous call left
lastIndexShared(name) == regexState[name]

\* the lastIndex of the regular expression object a test() call of the
\* method acts on: the literal has just been evaluated, so it is 0
lastIndexAtUse(name) == 0

\* RegExp.prototype.test of a g regular expression whose lastIndex is
\* lastIndex (0-based): the result and the lastIndex it leaves
TestResult(m) ==
  [found |-> m.index > 0, lastIndex |-> IF m.index > 0 THEN m.end - 1 ELSE 0]

TestGlobal(re, s, lastIndex) ==
  TestResult(IF lastIndex > Len(s) THEN NoMatch ELSE ExecFrom(re, s, lastIndex + 1))

(***************************************************************************)
(* PatternAnalyzer                                                         *)
(***************************************************************************)
ExcessiveComments(lineNumbers) ==
  [patternType |-> "ai-indicator",
   patternName |-> "Excessive Comments",
   severity    |-> "medium",
   description |-> "High comment density may indicate AI-generated code",
   lineNumbers |-> lineNumbers]

PerfectFormatting(lineNumbers) ==
  [patternType |-> "ai-indicator",
   patternName |-> "Perfect Formatting",
   severity    |-> "low",
   description |-> "Consistently perfect formatting across all lines",
   lineNumbers |-> lineNumbers]

OverlyDescriptiveNames(lineNumbers) ==
  [patternType |-> "ai-indicator",
   patternName |-> "Overly Descriptive Names",
   severity    |-> "low",
   description |-> "Variable names are unusually descriptive and verbose",
   lineNumbers |-> lineNumbers]

LongLines(lineNumbers) ==
  [patternType |-> "style",
   patternName |-> "Long Lines",
   severity    |-> "low",
   description |-> "Lines exceed recommended length of 120 characters",
   lineNumbers |-> lineNumbers]

InconsistentSpacing(lineNumbers) ==
  [patternType |-> "style",
   patternName |-> "Inconsistent Spacing",
   severity    |-> "low",
   description |-> "Operators lack proper spacing",
   lineNumbers |-> lineNumbers]

DeepNesting(lineNumbers) ==
  [patternType |-> "complexity",
   patternName |-> "Deep Nesting",
   severity    |-> "high",
   description |-> "Multiple levels of nested blocks increase complexity",
   lineNumbers |-> lineNumbers]

ManyFunctions(lineNumbers) ==
  [patternType |-> "complexity",
   patternName |-> "Many Functions",
   severity    |-> "medium",
   description |-> "File contains many functions, consider splitting into modules",
   lineNumbers |-> lineNumbers]

LongFunction(lineNumbers) ==
  [patternType |-> "complexity",
   patternName |-> "Long Function",
   severity    |-> "medium",
   description |-> "Function exceeds 50 lines, consider refactoring",
   lineNumbers |-> lineNumbers]

HardcodedCredentials(lineNumbers) ==
  [patternType |-> "security",
   patternName |-> "Hardcoded Credentials",
   severity    |-> "high",
   description |-> "Potential hardcoded credentials detected",
   lineNumbers |-> lineNumbers]

SqlInjectionRisk(lineNumbers) ==
  [patternType |-> "security",
   patternName |-> "SQL Injection Risk",
   severity    |-> "high",
   description |-> "String concatenation in SQL queries detected",
   lineNumbers |-> lineNumbers]

EvalUsage(lineNumbers) ==
  [patternType |-> "security",
   patternName |-> "Eval Usage",
   severity    |-> "high",
   description |-> "Use of eval() is a security risk",
   lineNumbers |-> lineNumbers]

IsSlashCommentLine(line) ==
  LET trimmed == Trim(line)
  IN  StartsWith(trimmed, "//") \/ StartsWith(trimmed, "/*")

leadingSpacePattern == RegExp(<< <<StartOfInput, Star(WhiteSpace)>> >>)

\* line.match(/^\s*/)?.[0].length || 0
LeadingSpaces(line) == MatchLength(ExecFrom(leadingSpacePattern, line, 1))

descriptiveVarPattern ==
  RegExp(<< <<OneOf(<<"const", "let", "var">>), Plus(WhiteSpace), One(Lower),
              AtLeast(Lower \cup Upper, 8)>> >>)

\* variant: the line numbers are the positions of the comment lines
detectAIPatternsByPosition(code) ==
  LET lines == SplitLines(code)
      excessiveCommenting == SelectSeq(lines, IsSlashCommentLine)
      perfectIndentation ==
        \A i \in 1..Len(lines) :
          \/ Len(Trim(lines[i])) = 0
          \/ LeadingSpaces(lines[i]) % 2 = 0
      matches == CountFrom(descriptiveVarPattern, code, 1)
  IN    (IF Len(excessiveCommenting) * 10 > Len(lines) * 3
         THEN <<ExcessiveComments(SelectSeq([idx \in 1..Len(lines) |-> idx],
                                           LAMBDA idx : IsSlashCommentLine(lines[idx])))>>
         ELSE <<>>)
     \o (IF perfectIndentation /\ Len(lines) > 10
         THEN <<PerfectFormatting(<<>>)>> ELSE <<>>)
     \o (IF matches > 5 THEN <<OverlyDescriptiveNames(<<>>)>> ELSE <<>>)

detectAIPatterns(code) ==
  LET lines == SplitLines(code)
      excessiveCommenting == SelectSeq(lines, IsSlashCommentLine)
      perfectIndentation ==
        \A i \in 1..Len(lines) :
          \/ Len(Trim(lines[i])) = 0
          \/ LeadingSpaces(lines[i]) % 2 = 0
      matches == CountFrom(descriptiveVarPattern, code, 1)
  IN    (IF Len(excessiveCommenting) * 10 > Len(lines) * 3
         THEN <<ExcessiveComments([idx \in 1..Len(excessiveCommenting) |-> idx])>>
         ELSE <<>>)
     \o (IF perfectIndentation /\ Len(lines) > 10
         THEN <<PerfectFormatting(<<>>)>> ELSE <<>>)
     \o (IF matches > 5 THEN <<OverlyDescriptiveNames(<<>>)>> ELSE <<>>)

inconsistentSpacing ==
  RegExp(<< <<Plus(WordChar), Lit("+"), Plus(WordChar)>>,
            <<Plus(WordChar), Lit("-"), Plus(WordChar)>>,
            <<Plus(WordChar), Lit("="), Plus(WordChar)>> >>)

\* the 1-based indices of the lines longer than 120, in order
LongLineNumbers(lines) ==
  LET IsLong(idx) == Len(lines[idx]) > 120
  IN  SelectSeq([idx \in 1..Len(lines) |-> idx], IsLong)

detectStylePatterns(code) ==
  LET lines == SplitLines(code)
      longLines == LongLineNumbers(lines)
  IN    (IF Len(longLines) > 0 THEN <<LongLines(longLines)>> ELSE <<>>)
     \o (IF TestGlobal(inconsistentSpacing, code,
                       lastIndexAtUse("inconsistentSpacing")).found
         THEN <<InconsistentSpacing(<<>>)>> ELSE <<>>)

nestedBlocksPattern ==
  RegExp(<< <<Lit("{"), Star(WhiteSpace), Lit("if")>>,
            <<Lit("if"), AnyStar, Lit("{"), Star(WhiteSpace), Lit("if")>>,
            <<Lit("for"), AnyStar, Lit("{"), Star(WhiteSpace), Lit("for")>> >>)

functionPattern ==
  RegExp(<< <<Lit("function"), Plus(WhiteSpace), Plus(WordChar)>>,
            <<Lit("const"), Plus(WhiteSpace), Plus(WordChar), Star(WhiteSpace),
              Lit("="), Star(WhiteSpace), Lit("(")>> >>)

openBrace == RegExp(<< <<Lit("{")>> >>)

closeBrace == RegExp(<< <<Lit("}")>> >>)

\* the scanner of findLongFunctions before the first line
ScanStart ==
  [inFunction |-> FALSE, functionStart |-> 0, braceCount |-> 0, lineNumbers |-> <<>>]

\* variant: the loop starts one line early, at functionStart - 1
LinesOfFunctionFromIndex(functionStart, idx) ==
  [i \in 1..(idx + 1 - functionStart + 2) |-> functionStart + i - 2]

\* variant: the loop runs one line further, to idx + 2
LinesOfFunctionPastEnd(functionStart, idx) ==
  [i \in 1..(idx + 2 - functionStart + 1) |-> functionStart + i - 1]

\* functionStart, functionStart + 1, ..., idx + 1
LinesOfFunction(functionStart, idx) ==
  [i \in 1..(idx + 1 - functionStart + 1) |-> functionStart + i - 1]

\* variant: the closing line not counted
FunctionLengthWithoutLast(functionStart, idx) == idx - functionStart + 1

\* the function's length in lines, from its header to the line at idx (0-based)
FunctionLength(functionStart, idx) == idx - functionStart + 2

\* variant: a header inside an unfinished function keeps the balance
EnterFunctionKeepingBalance(st, trimmed, idx) ==
  IF Test(functionPattern, trimmed)
  THEN [st EXCEPT !.inFunction = TRUE, !.functionStart = idx + 1,
                  !.braceCount = IF st.inFunction THEN @ ELSE 0]
  ELSE st

\* a line that matches the function pattern starts a function
EnterFunction(st, trimmed, idx) ==
  IF Test(functionPattern, trimmed)
  THEN [st EXCEPT !.inFunction = TRUE, !.functionStart = idx + 1, !.braceCount = 0]
  ELSE st

\* braceCount after the braces of the line
CountBraces(st, line) ==
  st.braceCount + MatchCount(openBrace, line) - MatchCount(closeBrace, line)

\* the function ends on a line with a closing brace that brings braceCount to 0
CloseFunction(st, count, trimmed, idx) ==
  LET closes == count = 0 /\ Includes(trimmed, "}")
  IN  [st EXCEPT
         !.braceCount  = count,
         !.lineNumbers =
            IF closes /\ FunctionLength(st.functionStart, idx) > 50
            THEN @ \o LinesOfFunction(st.functionStart, idx) ELSE @,
         !.inFunction  = IF closes THEN FALSE ELSE @]

InFunction(st, line, trimmed, idx) ==
  IF ~st.inFunction THEN st
  ELSE CloseFunction(st, CountBraces(st, line), trimmed, idx)

ScanTrimmed(st, line, trimmed, idx) ==
  InFunction(EnterFunction(st, trimmed, idx), line, trimmed, idx)

\* one iteration of lines.forEach((line, idx) => ...), idx 0-based
ScanLine(st, line, idx) == ScanTrimmed(st, line, Trim(line), idx)

RECURSIVE ScanRange(_, _, _, _)
\* the iterations of lines.forEach for lines[a..b], in order
ScanRange(st, lines, a, b) ==
  IF a > b THEN st
  ELSE IF a = b THEN ScanLine(st, lines[a], a - 1)
  ELSE LET mid   == (a + b) \div 2
           first == ScanRange(st, lines, a, mid)
       IN  \* the first half is evaluated here, before the second half starts
           IF first.inFunction \in BOOLEAN
           THEN ScanRange(first, lines, mid + 1, b) ELSE first

findLongFunctions(lines) == ScanRange(ScanStart, lines, 1, Len(lines)).lineNumbers

\* if (longFunction.length > 0) patterns.push({... lineNumbers: longFunction})
LongFunctionPattern(longFunction) ==
  IF Len(longFunction) > 0 THEN <<LongFunction(longFunction)>> ELSE <<>>

detectComplexityPatterns(code) ==
        (IF LongerThan(MatchAll(nestedBlocksPattern, code), 3)
         THEN <<DeepNesting(<<>>)>> ELSE <<>>)
     \o (IF LongerThan(MatchAll(functionPattern, code), 10)
         THEN <<ManyFunctions(<<>>)>> ELSE <<>>)
     \o LongFunctionPattern(findLongFunctions(SplitLines(code)))

Quote == {"'", "\""}

hardcodedSecrets ==
  RegExpI(<< <<OneOf(<<"password", "secret", "apikey", "token">>),
               Star(WhiteSpace), Lit("="), Star(WhiteSpace),
               One(Quote), NotPlus(Quote), One(Quote)>> >>)

sqlInjection ==
  RegExpI(<< <<One(Quote), Star(WhiteSpace), Lit("+"), Star(WhiteSpace),
               Plus(WordChar), Star(WhiteSpace), Lit("+"), Star(WhiteSpace),
               One(Quote), AnyStar,
               OneOf(<<"SELECT", "INSERT", "UPDATE", "DELETE">>)>> >>)

evalUsage == RegExp(<< <<Lit("eval"), Star(WhiteSpace), Lit("(")>> >>)

detectSecurityPatterns(code) ==
       (IF TestGlobal(hardcodedSecrets, code, lastIndexAtUse("hardcodedSecrets")).found
        THEN <<HardcodedCredentials(<<>>)>> ELSE <<>>)
    \o (IF TestGlobal(sqlInjection, code, lastIndexAtUse("sqlInjection")).found
        THEN <<SqlInjectionRisk(<<>>)>> ELSE <<>>)
    \o (IF TestGlobal(evalUsage, code, lastIndexAtUse("evalUsage")).found
        THEN <<EvalUsage(<<>>)>> ELSE <<>>)

\* variant: the security patterns looked for in javascript alone
detectPatternsByLanguage(code, language) ==
     detectAIPatterns(code)
  \o detectStylePatterns(code)
  \o detectComplexityPatterns(code)
  \o (IF language = "javascript" THEN detectSecurityPatterns(code) ELSE <<>>)

\* variant: the style patterns left out when an ai-indicator pattern was found
detectPatternsSuppressing(code, language) ==
     detectAIPatterns(code)
  \o (IF Len(detectAIPatterns(code)) > 0 THEN <<>> ELSE detectStylePatterns(code))
  \o detectComplexityPatterns(code)
  \o detectSecurityPatterns(code)

detectPatterns(code, language) ==
     detectAIPatterns(code)
  \o detectStylePatterns(code)
  \o detectComplexityPatterns(code)
  \o detectSecurityPatterns(code)

\* the g regular expressions detectPatterns calls test() on
PatternTests ==
  [inconsistentSpacing |-> inconsistentSpacing, hardcodedSecrets |-> hardcodedSecrets,
   sqlInjection |-> sqlInjection, evalUsage |-> evalUsage]

(***************************************************************************)
(* SuggestionGenerator                                                     *)
(***************************************************************************)
ExtractFunctions ==
  [suggestionType |-> "refactor",
   title          |-> "Extract Functions",
   description    |-> "Consider breaking down large functions into smaller, reusable components for better maintainability.",
   codeSnippet    |-> "// Before:\nfunction largeFunction() {\n  // 100+ lines\n}\n\n// After:\nfunction mainFunction() {\n  validateInput();\n  processData();\n  formatOutput();\n}\n\nfunction validateInput() { ... }\nfunction processData() { ... }",
   priority       |-> "medium"]

ExtractRepeatedLogic ==
  [suggestionType |-> "refactor",
   title          |-> "Extract Repeated Logic",
   description    |-> "Similar code blocks detected. Consider extracting into a reusable helper function.",
   codeSnippet    |-> "// Extract common logic:\nfunction processItem(item) {\n  // Common processing logic\n  return transformedItem;\n}\n\n// Use in multiple places:\nitems.forEach(item => processItem(item));",
   priority       |-> "medium"]

SimplifyConditionalLogic ==
  [suggestionType |-> "refactor",
   title          |-> "Simplify Conditional Logic",
   description    |-> "Multiple conditional statements detected. Consider using strategy pattern or lookup tables.",
   codeSnippet    |-> "// Instead of multiple ifs:\nconst handlers = {\n  'type1': handleType1,\n  'type2': handleType2,\n  'type3': handleType3\n};\n\nhandlers[type]?.();",
   priority       |-> "low"]

RemoveHardcodedCredentials ==
  [suggestionType |-> "security",
   title          |-> "Remove Hardcoded Credentials",
   description    |-> "Credentials should be stored in environment variables, not hardcoded in source code.",
   codeSnippet    |-> "// Instead of:\nconst apiKey = \"hardcoded-key\";\n\n// Use:\nconst apiKey = import.meta.env.VITE_API_KEY;",
   priority       |-> "high"]

AvoidEval ==
  [suggestionType |-> "security",
   title          |-> "Avoid eval()",
   description    |-> "Using eval() is dangerous and can lead to code injection attacks. Use safer alternatives.",
   codeSnippet    |-> "// Instead of eval, use:\nconst result = JSON.parse(jsonString);\n// or\nconst fn = new Function('return ' + expression)();",
   priority       |-> "high"]

XssRiskWithInnerHTML ==
  [suggestionType |-> "security",
   title          |-> "XSS Risk with innerHTML",
   description    |-> "Using innerHTML with user input can lead to XSS attacks. Use textContent or sanitize input.",
   codeSnippet    |-> "// Safer approach:\nelement.textContent = userInput;\n// Or use a sanitization library:\nelement.innerHTML = DOMPurify.sanitize(userInput);",
   priority       |-> "high"]

OptimizeNestedLoops ==
  [suggestionType |-> "performance",
   title          |-> "Optimize Nested Loops",
   description    |-> "Nested loops can have O(n²) complexity. Consider using hash maps or other data structures.",
   codeSnippet    |-> "// Instead of nested loops:\nconst map = new Map();\narray1.forEach(item => map.set(item.id, item));\narray2.forEach(item => {\n  const match = map.get(item.id);\n});",
   priority       |-> "medium"]

CombineArrayOperations ==
  [suggestionType |-> "performance",
   title          |-> "Combine Array Operations",
   description    |-> "Chaining map and filter creates multiple iterations. Combine them for better performance.",
   codeSnippet    |-> "// Instead of:\narray.map(x => x * 2).filter(x => x > 10);\n\n// Use reduce:\narray.reduce((acc, x) => {\n  const doubled = x * 2;\n  if (doubled > 10) acc.push(doubled);\n  return acc;\n}, []);",
   priority       |-> "low"]

CacheDomQueries ==
  [suggestionType |-> "performance",
   title          |-> "Cache DOM Queries",
   description    |-> "Multiple DOM queries detected. Cache references to improve performance.",
   codeSnippet    |-> "// Cache DOM references:\nconst element = document.querySelector('.my-element');\n// Reuse the cached reference\nelement.classList.add('active');",
   priority       |-> "medium"]

UseConstLetInsteadOfVar ==
  [suggestionType |-> "style",
   title          |-> "Use const/let Instead of var",
   description    |-> "Modern JavaScript uses const and let for better scoping and immutability.",
   codeSnippet    |-> "// Instead of:\nvar count = 0;\n\n// Use:\nconst count = 0; // for values that won't change\nlet counter = 0; // for values that will change",
   priority       |-> "low"]

ConsiderArrowFunctions ==
  [suggestionType |-> "style",
   title          |-> "Consider Arrow Functions",
   description    |-> "For simple functions, arrow functions provide cleaner syntax.",
   codeSnippet    |-> "// Instead of:\nfunction add(a, b) {\n  return a + b;\n}\n\n// Use:\nconst add = (a, b) => a + b;",
   priority       |-> "low"]

LineLength ==
  [suggestionType |-> "style",
   title          |-> "Line Length",
   description    |-> "Some lines exceed 120 characters. Break them down for better readability.",
   codeSnippet    |-> "// Break long lines:\nconst result = veryLongFunction(\n  parameter1,\n  parameter2,\n  parameter3\n);",
   priority       |-> "low"]

duplicatePatterns ==
  RegExp(<< <<Lit("for"), Star(WhiteSpace), Lit("("), NotPlus({")"}), Lit(")"),
              Star(WhiteSpace), Lit("{"), NotAtLeast({"}"}, 50), Lit("}")>> >>)

ifOpen == RegExp(<< <<Lit("if"), Star(WhiteSpace), Lit("(")>> >>)

\* code.includes('if') && code.match(/if\s*\(/g)!.length > 5 reads the length
\* of null when the text holds 'if' and no 'if (': a TypeError
ConditionalCheckThrows(code) == Includes(code, "if") /\ MatchAll(ifOpen, code).null

generateRefactoringSuggestions(code) ==
  IF ConditionalCheckThrows(code) THEN Throw("TypeError")
  ELSE Return(
         (IF Includes(code, "function") /\ Len(code) > 500
          THEN <<ExtractFunctions>> ELSE <<>>)
      \o (IF LongerThan(MatchAll(duplicatePatterns, code), 2)
          THEN <<ExtractRepeatedLogic>> ELSE <<>>)
      \o (IF Includes(code, "if") /\ MatchAll(ifOpen, code).length > 5
          THEN <<SimplifyConditionalLogic>> ELSE <<>>))

credentialTest ==
  RegExpI(<< <<OneOf(<<"password", "secret", "apikey">>),
               Star(WhiteSpace), Lit("="), Star(WhiteSpace),
               One(Quote), NotPlus(Quote), One(Quote)>> >>)

evalTest == RegExp(<< <<Lit("eval"), Star(WhiteSpace), Lit("(")>> >>)

innerHTMLTest == RegExp(<< <<Lit("innerHTML"), Star(WhiteSpace), Lit("=")>> >>)

generateSecuritySuggestions(code) ==
       (IF TestGlobal(credentialTest, code, lastIndexAtUse("credentialTest")).found
        THEN <<RemoveHardcodedCredentials>> ELSE <<>>)
    \o (IF TestGlobal(evalTest, code, lastIndexAtUse("evalTest")).found
        THEN <<AvoidEval>> ELSE <<>>)
    \o (IF TestGlobal(innerHTMLTest, code, lastIndexAtUse("innerHTMLTest")).found
        THEN <<XssRiskWithInnerHTML>> ELSE <<>>)

nestedLoopTest ==
  RegExp(<< <<Lit("for"), Star(WhiteSpace), Lit("("), NotPlus({")"}), Lit(")"),
              Star(WhiteSpace), Lit("{"), NotStar({"}"}), Lit("for"),
              Star(WhiteSpace), Lit("(")>> >>)

mapFilterTest ==
  RegExp(<< <<Lit(".map("), NotPlus({")"}), Lit(")"), Lit(".filter(")>> >>)

domQueryTest ==
  RegExp(<< <<Lit("document.querySelector")>>, <<Lit("document.getElementById")>> >>)

generatePerformanceSuggestions(code) ==
       (IF TestGlobal(nestedLoopTest, code, lastIndexAtUse("nestedLoopTest")).found
        THEN <<OptimizeNestedLoops>> ELSE <<>>)
    \o (IF TestGlobal(mapFilterTest, code, lastIndexAtUse("mapFilterTest")).found
        THEN <<CombineArrayOperations>> ELSE <<>>)
    \o (IF /\ TestGlobal(domQueryTest, code, lastIndexAtUse("domQueryTest")).found
           /\ MatchCount(domQueryTest, code) > 3
        THEN <<CacheDomQueries>> ELSE <<>>)

varDeclaration == RegExp(<< <<Lit("var"), Plus(WhiteSpace), Plus(WordChar)>> >>)

functionDeclaration ==
  RegExp(<< <<Lit("function"), Plus(WhiteSpace), Plus(WordChar), Star(WhiteSpace),
              Lit("("), NotStar({")"}), Lit(")"), Star(WhiteSpace), Lit("{")>> >>)

arrowPossible ==
  RegExp(<< <<Lit("function"), Plus(WhiteSpace), Plus(WordChar), Star(WhiteSpace),
              Lit("("), NotStar({")"}), Lit(")"), Star(WhiteSpace), Lit("{"),
              NotBetween({"}"}, 0, 50), Lit("}")>> >>)

generateStyleSuggestions(code) ==
  LET lines == SplitLines(code)
  IN    (IF Test(varDeclaration, code) THEN <<UseConstLetInsteadOfVar>> ELSE <<>>)
     \o (IF Test(functionDeclaration, code) /\ MatchCount(arrowPossible, code) > 0
         THEN <<ConsiderArrowFunctions>> ELSE <<>>)
     \o (IF \E i \in 1..Len(lines) : Len(lines[i]) > 120
         THEN <<LineLength>> ELSE <<>>)

\* suggestions.push(...first, ...rest), unless computing first threw
PushAll(first, rest) ==
  IF first.threw THEN first ELSE Return(first.value \o rest)

\* variant: the style suggestions left out when a security suggestion was made
generateSuggestionsSuppressing(code, language) ==
  PushAll(generateRefactoringSuggestions(code),
             generateSecuritySuggestions(code)
          \o generatePerformanceSuggestions(code)
          \o (IF Len(generateSecuritySuggestions(code)) > 0 THEN <<>>
              ELSE generateStyleSuggestions(code)))

generateSuggestions(code, language) ==
  PushAll(generateRefactoringSuggestions(code),
             generateSecuritySuggestions(code)
          \o generatePerformanceSuggestions(code)
          \o generateStyleSuggestions(code))

\* the g regular expressions generateSuggestions calls test() on
SuggestionTests ==
  [credentialTest |-> credentialTest, evalTest |-> evalTest,
   innerHTMLTest |-> innerHTMLTest, nestedLoopTest |-> nestedLoopTest,
   mapFilterTest |-> mapFilterTest, domQueryTest |-> domQueryTest]

\* the lastIndex values a method leaves in the regular expressions it tested
AfterTests(tests, text) ==
  [name \in DOMAIN tests |->
     TestGlobal(tests[name], text, lastIndexAtUse(name)).lastIndex]


(***************************************************************************)
(* The inputs: what CodeEditor hands to the analysis, a text together with *)
(* the language selected and the file name.                                *)
(***************************************************************************)
MaxRepeat == 2

Languages == {"javascript", "python"}

FileNames == {"untitled.js", "main.py"}

RECURSIVE JoinRange(_, _, _)
\* lines[a..b] with a line feed between each two, by halves
JoinRange(lines, a, b) ==
  IF a > b THEN ""
  ELSE IF a = b THEN lines[a]
  ELSE LET mid == (a + b) \div 2
       IN  JoinRange(lines, a, mid) \o "\n" \o JoinRange(lines, mid + 1, b)

\* lines.join('\n')
JoinLines(lines) == JoinRange(lines, 1, Len(lines))

\* k times the line
Repeat(line, k) == [i \in 1..k |-> line]

\* the lines the texts are made of
Lines ==
  {"", "  ", "// note", "gift", "if (x) {", "}",
   "password = 'x'", "token = \"t\"", "APIKEY='k'", "secret = ''",
   "eval(x)", "var total = 1;", "el.innerHTML = s"}

\* up to MaxRepeat copies of a line, alone or followed by one more line
Codes ==
  {JoinLines(Repeat(first, k) \o last) :
     first \in Lines, k \in 1..MaxRepeat, last \in {<<>>} \cup {<<l>> : l \in Lines}}

Inputs(codes, languages, fileNames) ==
  [code : codes, language : languages, fileName : fileNames]

\* the editor before the user touches the language and the file name
NoInput == [code |-> "", language |-> "javascript", fileName |-> "untitled.js"]

vars ==
  <<input, scores, detection, patterns, suggestions, regexState, memo, scanner,
    analysis, retrieval, store, dashboard>>

NoRegexState ==
  [name \in (DOMAIN PatternTests) \cup (DOMAIN SuggestionTests) |-> 0]

(***************************************************************************)
(* The coordinator (codeAnalysisService) and the store.  A call is a frame *)
(* that moves from one await to the next: a step is the store's answer to  *)
(* the request in flight together with the code that runs up to the next   *)
(* request.  Every request may fail (ok = FALSE); an insert or a select    *)
(* acts on the rows the row level security policies admit for the session  *)
(* user store.uid.                                                         *)
(***************************************************************************)
Users == {"u1", "u2"}

MaxSubmissions == 1

\* the texts submitted: nothing to report, two patterns (one with a line
\* number) and a suggestion (with white space around the text), a text on
\* which generateSuggestions throws
CoordinatorCodes == {"", " // c\n eval(x)\n", "gift"}

EmptyStore ==
  [uid |-> "u1", code_submissions |-> <<>>, detection_results |-> <<>>,
   code_patterns |-> <<>>, developer_suggestions |-> <<>>]

\* auth.uid() = user_id
OwnRow(st, row) == st.uid = row.user_id

\* EXISTS (SELECT 1 FROM code_submissions WHERE id = submission_id
\*         AND user_id = auth.uid())
OwnsSubmission(st, submissionId) ==
  \E i \in 1..Len(st.code_submissions) :
    /\ st.code_submissions[i].id = submissionId
    /\ st.code_submissions[i].user_id = st.uid

\* the row .insert({user_id, code_content, language, file_name}).select().single()
\* gives back; the store sets the id
SubmissionRow(id, a) ==
  [id |-> id, user_id |-> a.userId, code_content |-> a.code,
   language |-> a.language, file_name |-> a.fileName]

DetectionRow(submissionId, detectionResult) ==
  [submission_id    |-> submissionId,
   ai_probability   |-> detectionResult.aiProbability,
   detection_method |-> detectionResult.detectionMethod,
   confidence_score |-> detectionResult.confidenceScore,
   analysis_details |-> detectionResult.analysisDetails]

\* variant: the rows without the line numbers
PatternRowsWithoutLines(submissionId, found) ==
  [i \in 1..Len(found) |->
     [submission_id |-> submissionId,
      pattern_type  |-> found[i].patternType,
      pattern_name  |-> found[i].patternName,
      severity      |-> found[i].severity,
      description   |-> found[i].description,
      line_numbers  |-> <<>>]]

PatternRows(submissionId, found) ==
  [i \in 1..Len(found) |->
     [submission_id |-> submissionId,
      pattern_type  |-> found[i].patternType,
      pattern_name  |-> found[i].patternName,
      severity      |-> found[i].severity,
      description   |-> found[i].description,
      line_numbers  |-> found[i].lineNumbers]]

SuggestionRows(submissionId, made) ==
  [i \in 1..Len(made) |->
     [submission_id   |-> submissionId,
      suggestion_type |-> made[i].suggestionType,
      title           |-> made[i].title,
      description     |-> made[i].description,
      code_snippet    |-> made[i].codeSnippet,
      priority        |-> made[i].priority]]

\* variant: the two numbers of the result exchanged
AnalysisResultExchanged(submissionId, detectionResult, found, made) ==
  [submissionId    |-> submissionId,
   aiProbability   |-> detectionResult.confidenceScore,
   confidenceScore |-> detectionResult.aiProbability,
   patterns        |-> [i \in 1..Len(found) |->
                          [type |-> found[i].patternType, name |-> found[i].patternName,
                           severity |-> found[i].severity,
                           description |-> found[i].description]],
   suggestions     |-> [i \in 1..Len(made) |->
                          [type |-> made[i].suggestionType, title |-> made[i].title,
                           description |-> made[i].description,
                           priority |-> made[i].priority]]]

\* the AnalysisResult analyzeCode returns
AnalysisResultOf(submissionId, detectionResult, found, made) ==
  [submissionId    |-> submissionId,
   aiProbability   |-> detectionResult.aiProbability,
   confidenceScore |-> detectionResult.confidenceScore,
   patterns        |-> [i \in 1..Len(found) |->
                          [type |-> found[i].patternType, name |-> found[i].patternName,
                           severity |-> found[i].severity,
                           description |-> found[i].description]],
   suggestions     |-> [i \in 1..Len(made) |->
                          [type |-> made[i].suggestionType, title |-> made[i].title,
                           description |-> made[i].description,
                           priority |-> made[i].priority]]]

NoneInvoked == [detection |-> <<>>, patterns |-> <<>>, suggestions |-> <<>>]

\* the rows handed to the store so far, by table
NoneSent ==
  [detection_results |-> <<>>, code_patterns |-> <<>>, developer_suggestions |-> <<>>]

\* no call of analyzeCode yet
IdleAnalysis ==
  [pc |-> "idle", code |-> "", language |-> "", fileName |-> "", userId |-> "",
   submission |-> 0, invoked |-> NoneInvoked, issued |-> <<>>, sent |-> NoneSent,
   result |-> NotCalled]

\* the next request of the call goes out
Issue(frame, table, pc) == [frame EXCEPT !.pc = pc, !.issued = @ \o <<table>>]

\* the next insert of the call goes out, with its rows
Send(frame, table, rows, pc) ==
  [Issue(frame, table, pc) EXCEPT !.sent[table] = rows]

\* the call is over: it returned or threw
Settle(frame, outcome) == [frame EXCEPT !.pc = "done", !.result = outcome]

\* data: null
Null == [null |-> TRUE]

\* data: the rows (or the row) a select gives back
Data(rows) == [null |-> FALSE, rows |-> rows]

\* data || []
OrEmpty(data) == IF data.null THEN <<>> ELSE data.rows

\* the Dashboard when it mounts: nothing analysed, nothing shown, no handler
\* awaiting a call.  history: the submissions the HistoryPanel lists; latest
\* and settled: which handler started last, and how each handler's last call
\* ended
InitialDashboard ==
  [isAnalyzing |-> FALSE, currentResult |-> Null, awaiting |-> {}, history |-> <<>>,
   latest |-> "none", settled |-> [analyze |-> "none", select |-> "none"]]

\* no call of getSubmissionDetails yet
IdleRetrieval ==
  [pc |-> "idle", submissionId |-> 0, userId |-> "", submission |-> Null,
   detection |-> Null, patterns |-> Null, suggestions |-> Null,
   issued |-> <<>>, result |-> NotCalled]

\* nothing has been called yet on the arguments in
Start(in) ==
  /\ input = in
  /\ scores = NotCalled
  /\ detection = NotCalled
  /\ patterns = NotCalled
  /\ suggestions = NotCalled
  /\ regexState = NoRegexState
  /\ memo = NotCalled
  /\ scanner = [idx |-> 0, line |-> "", st |-> ScanStart, outer |-> 0]
  /\ analysis = IdleAnalysis
  /\ retrieval = IdleRetrieval
  /\ store = EmptyStore
  /\ dashboard = InitialDashboard

Init == \E in \in Inputs(Codes, {NoInput.language}, {NoInput.fileName}) : Start(in)

\* DetectionEngine.analyzeCode(code, language)
AnalyzeCode ==
  /\ ~detection.called
  /\ scores' = MetricBundle(input.code)
  /\ detection' = Return(DetectionResult(scores'))
  /\ UNCHANGED <<input, patterns, suggestions, regexState, memo, scanner, analysis, retrieval, store,
                 dashboard>>

\* PatternAnalyzer.detectPatterns(code, language)
DetectPatterns ==
  /\ ~patterns.called
  /\ patterns' = Return(detectPatterns(input.code, input.language))
  /\ regexState' = [name \in DOMAIN regexState |->
                      IF name \in DOMAIN PatternTests
                      THEN AfterTests(PatternTests, input.code)[name]
                      ELSE regexState[name]]
  /\ UNCHANGED <<input, scores, detection, suggestions, memo, scanner, analysis, retrieval, store,
                 dashboard>>

\* SuggestionGenerator.generateSuggestions(code, language)
GenerateSuggestions ==
  /\ ~suggestions.called
  /\ suggestions' = generateSuggestions(input.code, input.language)
  /\ regexState' = [name \in DOMAIN regexState |->
                      IF name \in DOMAIN SuggestionTests /\ ~suggestions'.threw
                      THEN AfterTests(SuggestionTests, input.code)[name]
                      ELSE regexState[name]]
  /\ UNCHANGED <<input, scores, detection, patterns, memo, scanner, analysis, retrieval, store,
                 dashboard>>

Next == AnalyzeCode \/ DetectPatterns \/ GenerateSuggestions

Spec == Init /\ [][Next]_vars

(***************************************************************************)
(* Calls in sequence: the engines are singletons that serve one analysis   *)
(* after another.  memo keeps one earlier round of calls, for the          *)
(* properties that compare two calls.                                      *)
(***************************************************************************)
CallCodes == {"eval(x)", "password = 'x'", "gift"}

AllCalled == detection.called /\ patterns.called /\ suggestions.called

\* the next analysis: the engines are handed new arguments
NewInput(in) ==
  /\ input' = in
  /\ scores' = NotCalled
  /\ detection' = NotCalled
  /\ patterns' = NotCalled
  /\ suggestions' = NotCalled
  /\ UNCHANGED <<regexState, memo, scanner, analysis, retrieval, store, dashboard>>

\* the observer keeps the arguments and the outcomes of this round
Remember ==
  /\ AllCalled
  /\ memo' = [called |-> TRUE, input |-> input, detection |-> detection,
              patterns |-> patterns, suggestions |-> suggestions]
  /\ UNCHANGED <<input, scores, detection, patterns, suggestions, regexState, scanner, analysis, retrieval, store,
                 dashboard>>

InitCalls == \E in \in Inputs(CallCodes, Languages, FileNames) : Start(in)

NextCalls ==
  \/ AnalyzeCode
  \/ DetectPatterns
  \/ GenerateSuggestions
  \/ Remember
  \/ \E in \in Inputs(CallCodes, Languages, FileNames) : NewInput(in)

SpecCalls == InitCalls /\ [][NextCalls]_vars

(***************************************************************************)
(* The detection engine on texts of comment lines and plain lines.         *)
(***************************************************************************)
MaxComments == 4

MaxPlain == 20

MaxBlank == 1

\* the four ways a comment line starts
CommentStarts == <<"// c", "  /* c */", " * c", "# c">>

\* a statement with a trailing comment: not a comment line
PlainLine == "y; //"

\* blank lines, then comment lines, then plain lines
DensityCode(comments, plain, blank) ==
  JoinLines(   Repeat("  ", blank)
            \o [i \in 1..comments |-> CommentStarts[((i - 1) % Len(CommentStarts)) + 1]]
            \o Repeat(PlainLine, plain))

DensityCases ==
  {[code |-> DensityCode(c, p, b), comments |-> c, nonBlank |-> c + p] :
     c \in 0..MaxComments, p \in 0..MaxPlain, b \in 0..MaxBlank}

InitDensity ==
  \E k \in DensityCases :
    Start([code |-> k.code, language |-> NoInput.language, fileName |-> NoInput.fileName])

NextDensity == AnalyzeCode

SpecDensity == InitDensity /\ [][NextDensity]_vars

(***************************************************************************)
(* The aggregation of analyzeCode on bundles of metrics.                   *)
(***************************************************************************)
ScoreValues == {0, 20, 50, 75}

Bundles == [ScoreNames -> ScoreValues]

\* analyzeCode from the five metrics on: the probability, the confidence and
\* the result
Aggregate ==
  /\ scores \in Bundles
  /\ ~detection.called
  /\ detection' = Return(DetectionResult(scores))
  /\ UNCHANGED <<input, scores, patterns, suggestions, regexState, memo, scanner, analysis, retrieval, store,
                 dashboard>>

InitScores ==
  /\ scores \in Bundles
  /\ input = NoInput
  /\ detection = NotCalled
  /\ patterns = NotCalled
  /\ suggestions = NotCalled
  /\ regexState = NoRegexState
  /\ memo = NotCalled
  /\ scanner = [idx |-> 0, line |-> "", st |-> ScanStart, outer |-> 0]
  /\ analysis = IdleAnalysis
  /\ retrieval = IdleRetrieval
  /\ store = EmptyStore
  /\ dashboard = InitialDashboard

NextScores == Aggregate

SpecScores == InitScores /\ [][NextScores]_vars

(***************************************************************************)
(* findLongFunctions line by line.                                         *)
(***************************************************************************)
MaxScanLines == 52

MaxDepth == 2

ScanLines ==
  {"function f() {", "const g = (a) => {", "function h()", "x;", "{", "}", "} else {"}

\* the start line a header overwrote while its function was unfinished, the
\* latest one (0: none so far), of the functions that start early enough to
\* grow longer than 50 lines within MaxScanLines
Overwritten(st, trimmed, outer) ==
  IF /\ st.inFunction
     /\ st.functionStart + 50 <= MaxScanLines
     /\ Test(functionPattern, trimmed)
  THEN st.functionStart ELSE outer

\* the next iteration of lines.forEach, on a line of the text
ScanStep(line) ==
  /\ scanner.idx < MaxScanLines
  /\ scanner' = [idx   |-> scanner.idx + 1,
                 line  |-> line,
                 st    |-> ScanLine(scanner.st, line, scanner.idx),
                 outer |-> Overwritten(scanner.st, Trim(line), scanner.outer)]
  /\ scanner'.st.braceCount \in -1..MaxDepth
  /\ UNCHANGED <<input, scores, detection, patterns, suggestions, regexState, memo, analysis, retrieval, store,
                 dashboard>>

NextScan == \E line \in ScanLines : ScanStep(line)

InitScan == Start(NoInput)

SpecScan == InitScan /\ [][NextScan]_vars

(***************************************************************************)
(* The pattern analyzer on texts that hold one function: lines before it,  *)
(* the header, the body, the closing brace, lines after it.                *)
(***************************************************************************)
SpanLines == 60

MaxLead == 2

MaxTrail == 1

FunctionHeaders == {"function f() {", "  const g = (a) => {"}

BodyLines == {"", "  x;", "  if (a) { b; }"}

\* a function of span lines, its header on line lead + 1
FunctionCode(lead, header, body, span, trail) ==
  JoinLines(   Repeat("x;", lead) \o <<header>> \o Repeat(body, span - 2) \o <<"}">>
            \o Repeat("y;", trail))

\* start and end: the 1-based numbers of the header line and of the closing line
FunctionCases ==
  {[code |-> FunctionCode(lead, header, body, span, trail),
    start |-> lead + 1, end |-> lead + span, span |-> span] :
     lead \in 0..MaxLead, header \in FunctionHeaders, body \in BodyLines,
     span \in {50, 51, SpanLines}, trail \in 0..MaxTrail}

InitFunctions ==
  \E k \in FunctionCases :
    Start([code |-> k.code, language |-> NoInput.language, fileName |-> NoInput.fileName])

NextFunctions == DetectPatterns

SpecFunctions == InitFunctions /\ [][NextFunctions]_vars

(***************************************************************************)
(* The pattern analyzer on texts of comment lines and other lines.         *)
(***************************************************************************)
MaxSlash == 4

MaxOther == 10

\* the two ways a line the analyzer counts as a comment starts
SlashStarts == <<"// c", "  /* c */">>

\* a statement, a blank line, and the comment lines the analyzer does not count
OtherLines == <<"x;", "", " * c", "# c">>

Layouts == {"first", "last", "spread"}

RECURSIVE Interleave(_, _)
\* a line of xs, a line of ys, a line of xs, ..., then what is left
Interleave(xs, ys) ==
  IF Len(xs) = 0 THEN ys
  ELSE IF Len(ys) = 0 THEN xs
  ELSE <<Head(xs), Head(ys)>> \o Interleave(Tail(xs), Tail(ys))

\* comments comment lines and others other lines: the comment lines first,
\* last, or one after each other line
CommentCode(comments, others, layout) ==
  LET cs == [i \in 1..comments |-> SlashStarts[((i - 1) % Len(SlashStarts)) + 1]]
      os == [i \in 1..others |-> OtherLines[((i - 1) % Len(OtherLines)) + 1]]
  IN  JoinLines(CASE layout = "first" -> cs \o os
                  [] layout = "last" -> os \o cs
                  [] OTHER -> Interleave(os, cs))

\* total: the lines of the text, blank ones included (the empty text is one line)
CommentCases ==
  {[code |-> CommentCode(c, o, layout), comments |-> c, layout |-> layout,
    total |-> IF c + o = 0 THEN 1 ELSE c + o] :
     c \in 0..MaxSlash, o \in 0..MaxOther, layout \in Layouts}

InitComments ==
  \E k \in CommentCases :
    Start([code |-> k.code, language |-> NoInput.language, fileName |-> NoInput.fileName])

NextComments == DetectPatterns

SpecComments == InitComments /\ [][NextComments]_vars
(***************************************************************************)
(* The pattern analyzer on texts put together from triggers: for each of   *)
(* the 11 patterns a piece of text that makes its detector fire and no     *)
(* other, and a text for a set of patterns made of the pieces of its       *)
(* members.                                                                *)
(***************************************************************************)
MaxTriggers == 2

\* the names in the order detectPatterns pushes them
PatternNames ==
  <<"Excessive Comments", "Perfect Formatting", "Overly Descriptive Names",
    "Long Lines", "Inconsistent Spacing",
    "Deep Nesting", "Many Functions", "Long Function",
    "Hardcoded Credentials", "SQL Injection Risk", "Eval Usage">>

\* 121 characters
LongLine ==
  ";;;;;;;;;;;;;;;;;;;;;;;;;;;;;;;;;;;;;;;;;;;;;;;;;;;;;;;;;;;;;;;;;;;;;;;;;;;;;;;;;;;;;;;;;;;;;;;;;;;;;;;;;;;;;;;;;;;;;;;;;"

\* 11 function headers
ManyFunctionsLine ==
  "function a function a function a function a function a function a function a function a function a function a function a"

\* 6 declarations of names of 9 letters
DescriptiveNamesLine ==
  "let abcdefghi let abcdefghi let abcdefghi let abcdefghi let abcdefghi let abcdefghi"

\* the lines of the triggers of S other than the comment lines; without
\* 'Perfect Formatting' a line with an odd indentation
TriggerLines(S) ==
     (IF "Deep Nesting" \in S THEN <<"{if{if{if{if">> ELSE <<>>)
  \o (IF "Many Functions" \in S THEN <<ManyFunctionsLine>> ELSE <<>>)
  \o (IF "Overly Descriptive Names" \in S THEN <<DescriptiveNamesLine>> ELSE <<>>)
  \o (IF "Long Lines" \in S THEN <<LongLine>> ELSE <<>>)
  \o (IF "Inconsistent Spacing" \in S THEN <<"a=b">> ELSE <<>>)
  \o (IF "Hardcoded Credentials" \in S THEN <<"password = 'x'">> ELSE <<>>)
  \o (IF "SQL Injection Risk" \in S THEN <<"' + a + ' SELECT">> ELSE <<>>)
  \o (IF "Eval Usage" \in S THEN <<"eval(x)">> ELSE <<>>)
  \o (IF "Perfect Formatting" \in S THEN <<>> ELSE <<" z">>)
  \o (IF "Long Function" \in S
      THEN <<"function f() {">> \o Repeat("", 49) \o <<"}">> ELSE <<>>)

\* blank lines added up to 11 lines, then for 'Excessive Comments' more
\* comment lines than 3/7 of the others (more than 0.3 of all the lines)
WithComments(S, lines) ==
  lines \o (IF "Excessive Comments" \in S
            THEN Repeat("//", (3 * Len(lines)) \div 7 + 1) ELSE <<>>)

PatternCode(S) ==
  JoinLines(WithComments(S, TriggerLines(S) \o Repeat("", 11 - Len(TriggerLines(S)))))

\* the sets of at most MaxTriggers patterns, and of all but at most MaxTriggers
TriggerSets(names) ==
  {S \in SUBSET Range(names) :
     \/ Cardinality(S) <= MaxTriggers
     \/ Cardinality(S) >= Len(names) - MaxTriggers}

PatternCases == {[code |-> PatternCode(S), triggers |-> S] : S \in TriggerSets(PatternNames)}

InitTriggers ==
  \E k \in PatternCases :
    Start([code |-> k.code, language |-> NoInput.language, fileName |-> NoInput.fileName])

NextTriggers == DetectPatterns

SpecTriggers == InitTriggers /\ [][NextTriggers]_vars
(***************************************************************************)
(* The suggestion generator on texts put together from triggers: for each  *)
(* of the 12 suggestions a piece of text that satisfies its condition and  *)
(* no other.                                                               *)
(***************************************************************************)
\* the titles in the order generateSuggestions pushes them
SuggestionTitles ==
  <<"Extract Functions", "Extract Repeated Logic", "Simplify Conditional Logic",
    "Remove Hardcoded Credentials", "Avoid eval()", "XSS Risk with innerHTML",
    "Optimize Nested Loops", "Combine Array Operations", "Cache DOM Queries",
    "Use const/let Instead of var", "Consider Arrow Functions", "Line Length">>

\* 100 characters
PaddingLine ==
  ";;;;;;;;;;;;;;;;;;;;;;;;;;;;;;;;;;;;;;;;;;;;;;;;;;;;;;;;;;;;;;;;;;;;;;;;;;;;;;;;;;;;;;;;;;;;;;;;;;;;"

\* a loop with a body of 50 characters
LoopLine ==
  "for(a){;;;;;;;;;;;;;;;;;;;;;;;;;;;;;;;;;;;;;;;;;;;;;;;;;;}"

\* 4 queries
DomQueriesLine ==
  "document.querySelectordocument.querySelectordocument.querySelectordocument.querySelector"

\* the lines of the conditions of S; the word function with more than 500
\* characters first, the unfinished nested loop last
SuggestionLines(S) ==
     (IF "Extract Functions" \in S
      THEN <<"function">> \o Repeat(PaddingLine, 5) ELSE <<>>)
  \o (IF "Extract Repeated Logic" \in S THEN Repeat(LoopLine, 3) ELSE <<>>)
  \o (IF "Simplify Conditional Logic" \in S THEN <<"if(if(if(if(if(if(">> ELSE <<>>)
  \o (IF "Remove Hardcoded Credentials" \in S THEN <<"password='x'">> ELSE <<>>)
  \o (IF "Avoid eval()" \in S THEN <<"eval(eval(">> ELSE <<>>)
  \o (IF "XSS Risk with innerHTML" \in S THEN <<"innerHTML=">> ELSE <<>>)
  \o (IF "Combine Array Operations" \in S THEN <<".map(a).filter(">> ELSE <<>>)
  \o (IF "Cache DOM Queries" \in S THEN <<DomQueriesLine>> ELSE <<>>)
  \o (IF "Use const/let Instead of var" \in S THEN <<"var a var b">> ELSE <<>>)
  \o (IF "Consider Arrow Functions" \in S THEN <<"function f(){}">> ELSE <<>>)
  \o (IF "Line Length" \in S THEN <<LongLine>> ELSE <<>>)
  \o (IF "Optimize Nested Loops" \in S THEN <<"for(a){for(">> ELSE <<>>)

SuggestionCases ==
  {[code |-> JoinLines(SuggestionLines(S)), triggers |-> S] :
     S \in TriggerSets(SuggestionTitles)}

InitConditions ==
  \E k \in SuggestionCases :
    Start([code |-> k.code, language |-> NoInput.language, fileName |-> NoInput.fileName])

NextConditions == GenerateSuggestions

SpecConditions == InitConditions /\ [][NextConditions]_vars
(***************************************************************************)
(* The calls of the coordinator: analyzeCode stores a submission and what  *)
(* the engines say of it, getSubmissionDetails reads it back.              *)
(***************************************************************************)
\* at most MaxSubmissions submissions are added to the earlier ones a run
\* starts with
CanSubmit(earlier) == Len(store.code_submissions) < earlier + MaxSubmissions

\* analyzeCode(code, language, fileName, userId) up to its first await: the
\* insert into code_submissions goes out
StartAnalysis(code, language, fileName, userId) ==
  /\ analysis.pc \in {"idle", "done"}
  /\ analysis' = Issue([IdleAnalysis EXCEPT !.code = code, !.language = language,
                                            !.fileName = fileName, !.userId = userId],
                       "code_submissions", "insertSubmission")
  /\ input' = [code |-> code, language |-> language, fileName |-> fileName]
  /\ scores' = NotCalled
  /\ detection' = NotCalled
  /\ patterns' = NotCalled
  /\ suggestions' = NotCalled
  /\ UNCHANGED <<regexState, memo, scanner, retrieval, store>>

\* the three engines have been called, each once, with the text of the call:
\* the call throws what generateSuggestions threw, or goes on to store the result
AfterEngines(frame, submissionId, detectionResult, made) ==
  LET called == [frame EXCEPT
                   !.submission = submissionId,
                   !.invoked = [detection   |-> <<frame.code>>,
                                patterns    |-> <<frame.code>>,
                                suggestions |-> <<frame.code>>]]
  IN  IF made.threw THEN Settle(called, made)
      ELSE Send(called, "detection_results",
                <<DetectionRow(submissionId, detectionResult)>>, "insertDetection")

\* variant: the answer of the insert into code_submissions is not looked at
SubmissionInsertedUnchecked(ok) ==
  /\ analysis.pc = "insertSubmission"
  /\ store' = IF ok /\ OwnRow(store, SubmissionRow(0, analysis))
              THEN [store EXCEPT !.code_submissions =
                      @ \o <<SubmissionRow(Len(@) + 1, analysis)>>]
              ELSE store
  /\ scores' = MetricBundle(analysis.code)
  /\ detection' = Return(DetectionResult(scores'))
  /\ patterns' = Return(detectPatterns(analysis.code, analysis.language))
  /\ suggestions' = generateSuggestions(analysis.code, analysis.language)
  /\ regexState' = regexState
  /\ analysis' = AfterEngines(analysis, Len(store'.code_submissions),
                              detection'.value, suggestions')
  /\ UNCHANGED <<input, memo, scanner, retrieval, dashboard>>

\* the insert into code_submissions is answered.  On an error, or no row, the
\* call throws; otherwise the engines run and the insert into
\* detection_results goes out
SubmissionInserted(ok) ==
  /\ analysis.pc = "insertSubmission"
  /\ IF ok /\ OwnRow(store, SubmissionRow(0, analysis))
     THEN /\ store' = [store EXCEPT !.code_submissions =
                         @ \o <<SubmissionRow(Len(@) + 1, analysis)>>]
          /\ scores' = MetricBundle(analysis.code)
          /\ detection' = Return(DetectionResult(scores'))
          /\ patterns' = Return(detectPatterns(analysis.code, analysis.language))
          /\ suggestions' = generateSuggestions(analysis.code, analysis.language)
          /\ regexState' =
               [name \in DOMAIN regexState |->
                  IF name \in DOMAIN PatternTests
                  THEN AfterTests(PatternTests, analysis.code)[name]
                  ELSE IF ~suggestions'.threw
                  THEN AfterTests(SuggestionTests, analysis.code)[name]
                  ELSE regexState[name]]
          /\ analysis' = AfterEngines(analysis, Len(store'.code_submissions),
                                         detection'.value, suggestions')
     ELSE /\ analysis' = Settle(analysis, Throw("Failed to create code submission"))
          /\ UNCHANGED <<scores, detection, patterns, suggestions, regexState, store>>
  /\ UNCHANGED <<input, memo, scanner, retrieval, dashboard>>

\* return { submissionId, aiProbability, confidenceScore, patterns, suggestions }
Resolve(frame) ==
  Settle(frame, Return(AnalysisResultOf(frame.submission, detection.value,
                                        patterns.value, suggestions.value)))

\* if (suggestions.length > 0) await insert into developer_suggestions
AfterPatterns(frame) ==
  IF Len(suggestions.value) > 0
  THEN Send(frame, "developer_suggestions",
            SuggestionRows(frame.submission, suggestions.value), "insertSuggestions")
  ELSE Resolve(frame)

\* if (patterns.length > 0) await insert into code_patterns
AfterDetection(frame) ==
  IF Len(patterns.value) > 0
  THEN Send(frame, "code_patterns",
            PatternRows(frame.submission, patterns.value), "insertPatterns")
  ELSE AfterPatterns(frame)

\* the insert into detection_results is answered; its error is not read
DetectionInserted(ok) ==
  /\ analysis.pc = "insertDetection"
  /\ store' = IF ok /\ OwnsSubmission(store, analysis.submission)
              THEN [store EXCEPT !.detection_results =
                      @ \o analysis.sent.detection_results]
              ELSE store
  /\ analysis' = AfterDetection(analysis)
  /\ UNCHANGED <<input, scores, detection, patterns, suggestions, regexState, memo,
                 scanner, retrieval, dashboard>>

\* the insert into code_patterns is answered; its error is not read
PatternsInserted(ok) ==
  /\ analysis.pc = "insertPatterns"
  /\ store' = IF ok /\ OwnsSubmission(store, analysis.submission)
              THEN [store EXCEPT !.code_patterns =
                      @ \o analysis.sent.code_patterns]
              ELSE store
  /\ analysis' = AfterPatterns(analysis)
  /\ UNCHANGED <<input, scores, detection, patterns, suggestions, regexState, memo,
                 scanner, retrieval, dashboard>>

\* the insert into developer_suggestions is answered; its error is not read
SuggestionsInserted(ok) ==
  /\ analysis.pc = "insertSuggestions"
  /\ store' = IF ok /\ OwnsSubmission(store, analysis.submission)
              THEN [store EXCEPT !.developer_suggestions =
                      @ \o analysis.sent.developer_suggestions]
              ELSE store
  /\ analysis' = Resolve(analysis)
  /\ UNCHANGED <<input, scores, detection, patterns, suggestions, regexState, memo,
                 scanner, retrieval, dashboard>>

\* variant: the select without .eq('user_id', userId)
SelectSubmissionById(st, submissionId, userId) ==
  SelectSeq(st.code_submissions,
            LAMBDA row : row.id = submissionId /\ OwnRow(st, row))

\* from('code_submissions').select('*').eq('id', submissionId)
\* .eq('user_id', userId), on the rows the session user may view
SelectSubmission(st, submissionId, userId) ==
  SelectSeq(st.code_submissions,
            LAMBDA row : /\ row.id = submissionId
                         /\ row.user_id = userId
                         /\ OwnRow(st, row))

\* from(table).select('*').eq('submission_id', submissionId), on the rows of
\* the submissions the session user owns
SelectBySubmission(st, rows, submissionId) ==
  SelectSeq(rows, LAMBDA row : /\ row.submission_id = submissionId
                               /\ OwnsSubmission(st, submissionId))

\* maybeSingle(): the row when there is exactly one, null otherwise
MaybeSingle(rows) == IF Len(rows) = 1 THEN Data(rows[1]) ELSE Null

\* getSubmissionDetails(submissionId, userId) up to its first await: the
\* select from code_submissions goes out
StartDetails(submissionId, userId) ==
  /\ retrieval.pc \in {"idle", "done"}
  /\ retrieval' = Issue([IdleRetrieval EXCEPT !.submissionId = submissionId,
                                              !.userId = userId],
                        "code_submissions", "selectSubmission")
  /\ UNCHANGED <<input, scores, detection, patterns, suggestions, regexState, memo,
                 scanner, analysis, store>>

\* the submission has been looked for: without it the call throws, with it
\* the select from detection_results goes out
AfterSubmission(frame, data) ==
  IF data.null THEN Settle(frame, Throw("Submission not found"))
  ELSE Issue([frame EXCEPT !.submission = data], "detection_results", "selectDetection")

\* the select from code_submissions is answered
SubmissionSelected(ok) ==
  /\ retrieval.pc = "selectSubmission"
  /\ retrieval' =
       AfterSubmission(retrieval,
                       IF ok
                       THEN MaybeSingle(SelectSubmission(store, retrieval.submissionId,
                                                         retrieval.userId))
                       ELSE Null)
  /\ UNCHANGED <<input, scores, detection, patterns, suggestions, regexState, memo,
                 scanner, analysis, store, dashboard>>

\* the select from detection_results is answered; the select from
\* code_patterns goes out
DetectionSelected(ok) ==
  /\ retrieval.pc = "selectDetection"
  /\ retrieval' =
       Issue([retrieval EXCEPT !.detection =
                IF ok
                THEN MaybeSingle(SelectBySubmission(store, store.detection_results,
                                                    retrieval.submissionId))
                ELSE Null],
             "code_patterns", "selectPatterns")
  /\ UNCHANGED <<input, scores, detection, patterns, suggestions, regexState, memo,
                 scanner, analysis, store, dashboard>>

\* the select from code_patterns is answered; the select from
\* developer_suggestions goes out
PatternsSelected(ok) ==
  /\ retrieval.pc = "selectPatterns"
  /\ retrieval' =
       Issue([retrieval EXCEPT !.patterns =
                IF ok
                THEN Data(SelectBySubmission(store, store.code_patterns,
                                             retrieval.submissionId))
                ELSE Null],
             "developer_suggestions", "selectSuggestions")
  /\ UNCHANGED <<input, scores, detection, patterns, suggestions, regexState, memo,
                 scanner, analysis, store, dashboard>>

\* return { submission, detection, patterns: patterns || [], suggestions:
\* suggestions || [] }
Details(frame, suggestionData) ==
  [submission  |-> frame.submission.rows,
   detection   |-> frame.detection,
   patterns    |-> OrEmpty(frame.patterns),
   suggestions |-> OrEmpty(suggestionData)]

\* the select from developer_suggestions is answered; the call returns
SuggestionsSelected(ok) ==
  /\ retrieval.pc = "selectSuggestions"
  /\ retrieval' =
       Settle(retrieval,
              Return(Details(retrieval,
                             IF ok
                             THEN Data(SelectBySubmission(store, store.developer_suggestions,
                                                          retrieval.submissionId))
                             ELSE Null)))
  /\ UNCHANGED <<input, scores, detection, patterns, suggestions, regexState, memo,
                 scanner, analysis, store, dashboard>>

InFlight(frame) == frame.pc \notin {"idle", "done"}

\* another user signs in, between two calls
SignIn(user) ==
  /\ ~InFlight(analysis)
  /\ ~InFlight(retrieval)
  /\ user # store.uid
  /\ store' = [store EXCEPT !.uid = user]
  /\ UNCHANGED <<input, scores, detection, patterns, suggestions, regexState, memo,
                 scanner, analysis, retrieval, dashboard>>

InitCoordinator == Start(NoInput)

NextCoordinator ==
  \/ \E code \in CoordinatorCodes, userId \in Users :
       /\ CanSubmit(0)
       /\ StartAnalysis(code, NoInput.language, NoInput.fileName, userId)
       /\ UNCHANGED dashboard
  \/ \E ok \in BOOLEAN : SubmissionInserted(ok)
  \/ \E ok \in BOOLEAN : DetectionInserted(ok)
  \/ \E ok \in BOOLEAN : PatternsInserted(ok)
  \/ \E ok \in BOOLEAN : SuggestionsInserted(ok)
  \/ \E submissionId \in 1..MaxSubmissions, userId \in Users :
       StartDetails(submissionId, userId) /\ UNCHANGED dashboard
  \/ \E ok \in BOOLEAN : SubmissionSelected(ok)
  \/ \E ok \in BOOLEAN : DetectionSelected(ok)
  \/ \E ok \in BOOLEAN : PatternsSelected(ok)
  \/ \E ok \in BOOLEAN : SuggestionsSelected(ok)
  \/ \E user \in Users : SignIn(user)

SpecCoordinator == InitCoordinator /\ [][NextCoordinator]_vars
(***************************************************************************)
(* The pattern analyzer on texts that hold two functions, one after the    *)
(* other or the second inside the first.                                   *)
(***************************************************************************)
MaxGap == 1

Shapes == {"apart", "nested"}

\* first and second: the lengths in lines of the two functions, from header
\* to closing line; gap: the lines after the second function's closing line
\* (nested, before the first function's closing line) or between the two
TwoFunctionLines(shape, lead, first, gap, second, body) ==
  IF shape = "apart"
  THEN    Repeat("x;", lead)
       \o <<"function f() {">> \o Repeat(body, first - 2) \o <<"}">>
       \o Repeat("y;", gap)
       \o <<"  const g = (a) => {">> \o Repeat(body, second - 2) \o <<"}">>
  ELSE    Repeat("x;", lead)
       \o <<"function f() {">>
       \o <<"  const g = (a) => {">> \o Repeat(body, second - 2) \o <<"}">>
       \o Repeat("y;", gap) \o <<"}">>

\* total: the number of lines of the text
RunCases ==
  {[code  |-> JoinLines(TwoFunctionLines(shape, lead, first, gap, second, body)),
    shape |-> shape, lead |-> lead, first |-> first, gap |-> gap, second |-> second,
    total |-> Len(TwoFunctionLines(shape, lead, first, gap, second, body))] :
     shape \in Shapes, lead \in 0..MaxGap, first \in {50, 51}, gap \in 0..MaxGap,
     second \in {50, 51}, body \in BodyLines}

InitRuns ==
  \E k \in RunCases :
    Start([code |-> k.code, language |-> NoInput.language, fileName |-> NoInput.fileName])

NextRuns == DetectPatterns

SpecRuns == InitRuns /\ [][NextRuns]_vars
(***************************************************************************)
(* The Dashboard.  A handler runs up to its await in one step, together    *)
(* with the call it makes up to that call's first request; it goes on in a *)
(* later step, once the call is over.  The HistoryPanel lists the          *)
(* submissions the user had when the Dashboard mounted.                    *)
(***************************************************************************)
\* the texts in the editor: blank, a text with a pattern and a suggestion, a
\* text on which generateSuggestions throws
EditorCodes == {"  ", "var a=1", "gift"}

PriorCode == " // c\n eval(x)\n"

\* the store after one earlier analysis of the session user, every insert
\* of which succeeded
PriorStore ==
  [uid |-> "u1",
   code_submissions |->
     <<SubmissionRow(1, [userId |-> "u1", code |-> PriorCode,
                         language |-> NoInput.language,
                         fileName |-> NoInput.fileName])>>,
   detection_results |-> <<DetectionRow(1, DetectionResult(MetricBundle(PriorCode)))>>,
   code_patterns |-> PatternRows(1, detectPatterns(PriorCode, NoInput.language)),
   developer_suggestions |->
     SuggestionRows(1, generateSuggestions(PriorCode, NoInput.language).value)]

\* the AnalysisResult handleSelectSubmission makes of the details
ResultOfDetails(submissionId, details) ==
  [submissionId    |-> submissionId,
   aiProbability   |-> details.detection.rows.ai_probability,
   confidenceScore |-> details.detection.rows.confidence_score,
   patterns        |-> [i \in 1..Len(details.patterns) |->
                          [type        |-> details.patterns[i].pattern_type,
                           name        |-> details.patterns[i].pattern_name,
                           severity    |-> details.patterns[i].severity,
                           description |-> details.patterns[i].description]],
   suggestions     |-> [i \in 1..Len(details.suggestions) |->
                          [type        |-> details.suggestions[i].suggestion_type,
                           title       |-> details.suggestions[i].title,
                           description |-> details.suggestions[i].description,
                           priority    |-> details.suggestions[i].priority]]]

\* a handler starts: it is the latest, and it awaits its call
Await(d, handler) ==
  [d EXCEPT !.awaiting = @ \cup {handler}, !.latest = handler,
            !.settled[handler] = "none"]

\* the submit button is enabled and pressed: handleSubmit calls handleAnalyze,
\* which sets isAnalyzing and calls analyzeCode with the user's id
HandleAnalyze(code, language, fileName) ==
  /\ ~dashboard.isAnalyzing
  /\ Trim(code) # ""
  /\ StartAnalysis(code, language, fileName, store.uid)
  /\ dashboard' = [Await(dashboard, "analyze") EXCEPT !.isAnalyzing = TRUE]

\* variant: setIsAnalyzing(false) at the end of the try block, no finally
AnalysisSettledWithoutFinally ==
  /\ "analyze" \in dashboard.awaiting
  /\ analysis.pc = "done"
  /\ dashboard' =
       [dashboard EXCEPT
          !.currentResult = IF Returned(analysis.result)
                            THEN analysis.result.value ELSE @,
          !.isAnalyzing = ~Returned(analysis.result),
          !.awaiting = @ \ {"analyze"},
          !.settled["analyze"] = IF Returned(analysis.result)
                                 THEN "resolved" ELSE "rejected"]
  /\ UNCHANGED <<input, scores, detection, patterns, suggestions, regexState, memo,
                 scanner, analysis, retrieval, store>>

\* handleAnalyze after its await: try { setCurrentResult(result) }
\* catch { alert } finally { setIsAnalyzing(false) }
AnalysisSettled ==
  /\ "analyze" \in dashboard.awaiting
  /\ analysis.pc = "done"
  /\ dashboard' =
       [dashboard EXCEPT
          !.currentResult = IF Returned(analysis.result)
                            THEN analysis.result.value ELSE @,
          !.isAnalyzing = FALSE,
          !.awaiting = @ \ {"analyze"},
          !.settled["analyze"] = IF Returned(analysis.result)
                                 THEN "resolved" ELSE "rejected"]
  /\ UNCHANGED <<input, scores, detection, patterns, suggestions, regexState, memo,
                 scanner, analysis, retrieval, store>>

\* a submission of the history is clicked: handleSelectSubmission calls
\* getSubmissionDetails with the user's id
HandleSelectSubmission(submissionId) ==
  /\ "select" \notin dashboard.awaiting
  /\ StartDetails(submissionId, store.uid)
  /\ dashboard' = Await(dashboard, "select")

\* the details came with a detection result
HasDetection(outcome) == Returned(outcome) /\ ~outcome.value.detection.null

\* handleSelectSubmission after its await: if (details.detection)
\* setCurrentResult({...}); an error is logged
DetailsSettled ==
  /\ "select" \in dashboard.awaiting
  /\ retrieval.pc = "done"
  /\ dashboard' =
       [dashboard EXCEPT
          !.currentResult = IF HasDetection(retrieval.result)
                            THEN ResultOfDetails(retrieval.submissionId,
                                                 retrieval.result.value)
                            ELSE @,
          !.awaiting = @ \ {"select"},
          !.settled["select"] = IF HasDetection(retrieval.result) THEN "resolved"
                                ELSE IF Returned(retrieval.result) THEN "empty"
                                ELSE "rejected"]
  /\ UNCHANGED <<input, scores, detection, patterns, suggestions, regexState, memo,
                 scanner, analysis, retrieval, store>>

InitDashboard ==
  /\ input = NoInput
  /\ scores = NotCalled
  /\ detection = NotCalled
  /\ patterns = NotCalled
  /\ suggestions = NotCalled
  /\ regexState = NoRegexState
  /\ memo = NotCalled
  /\ scanner = [idx |-> 0, line |-> "", st |-> ScanStart, outer |-> 0]
  /\ analysis = IdleAnalysis
  /\ retrieval = IdleRetrieval
  /\ store = PriorStore
  /\ dashboard = [InitialDashboard EXCEPT !.history = <<1>>]

\* a handler whose call is over has not gone on yet: it does so before the
\* next event (a click, an answer of the store) is handled
ContinuationPending ==
  \/ "analyze" \in dashboard.awaiting /\ analysis.pc = "done"
  \/ "select" \in dashboard.awaiting /\ retrieval.pc = "done"

\* the store answers the request of analyzeCode in flight
AnalysisAnswered ==
  /\ ~ContinuationPending
  /\ \/ \E ok \in BOOLEAN : SubmissionInserted(ok)
     \/ \E ok \in BOOLEAN : DetectionInserted(ok)
     \/ \E ok \in BOOLEAN : PatternsInserted(ok)
     \/ \E ok \in BOOLEAN : SuggestionsInserted(ok)

\* the store answers the request of getSubmissionDetails in flight
DetailsAnswered ==
  /\ ~ContinuationPending
  /\ \/ \E ok \in BOOLEAN : SubmissionSelected(ok)
     \/ \E ok \in BOOLEAN : DetectionSelected(ok)
     \/ \E ok \in BOOLEAN : PatternsSelected(ok)
     \/ \E ok \in BOOLEAN : SuggestionsSelected(ok)

\* the submit button of the CodeEditor is pressed
Submit ==
  /\ ~ContinuationPending
  /\ CanSubmit(Len(dashboard.history))
  /\ \E code \in EditorCodes : HandleAnalyze(code, NoInput.language, NoInput.fileName)

\* a submission of the HistoryPanel is clicked
Select ==
  /\ ~ContinuationPending
  /\ \E i \in 1..Len(dashboard.history) : HandleSelectSubmission(dashboard.history[i])

NextDashboard ==
  \/ Submit
  \/ AnalysisAnswered
  \/ AnalysisSettled
  \/ Select
  \/ DetailsAnswered
  \/ DetailsSettled

SpecDashboard == InitDashboard /\ [][NextDashboard]_vars

\* every request is answered, however often the handling of the answer has to
\* wait for a continuation to run first, and a handler goes on when its call
\* is over
FairDashboard ==
  /\ SpecDashboard
  /\ SF_vars(AnalysisAnswered)
  /\ WF_vars(AnalysisSettled)
  /\ SF_vars(DetailsAnswered)
  /\ WF_vars(DetailsSettled)
(***************************************************************************)
(* Properties                                                              *)
(***************************************************************************)
Threw(o) == o.called /\ o.threw

\* C1: the core engines never throw: on every text each of analyzeCode,
\* detectPatterns and generateSuggestions returns normally.  A text with the
\* letters 'if' and no 'if (' makes generateSuggestions throw a TypeError.
EnginesNeverThrow == ~Threw(detection) /\ ~Threw(patterns) /\ ~Threw(suggestions)

\* C2: the result of analyzeCode has 0 <= aiProbability <= 100 and
\* 50 <= confidenceScore <= 100 (in hundredths), both finite numbers, on every
\* text, the empty and the blank ones included.
ResultInRange ==
  Returned(detection) =>
    /\ detection.value.aiProbability \in 0..10000
    /\ detection.value.confidenceScore \in 5000..10000

ResultInRangeWitness ==
  /\ Returned(detection)
  /\ input.code = "  "
  /\ detection.value.aiProbability \in 0..10000
  /\ detection.value.confidenceScore \in 5000..10000

\* the numbers of comment lines and of non-blank lines the text was built with
CaseOf(code) == CHOOSE k \in DensityCases : k.code = code

\* 75 above 30 percent, 20 below 5 percent, 50 between; whenEmpty without lines
DensityBucket(comments, nonBlank, whenEmpty) ==
  IF nonBlank = 0 THEN whenEmpty
  ELSE IF 100 * comments > 30 * nonBlank THEN 75
  ELSE IF 100 * comments < 5 * nonBlank THEN 20
  ELSE 50

\* C3, as stated: commentDensity is 75 when the comment lines are more than 30
\* percent of the non-blank lines, 20 when fewer than 5 percent, 50 otherwise,
\* and 20 for a text without non-blank lines.
CommentDensityInBuckets ==
  Returned(detection) =>
    LET k == CaseOf(input.code)
    IN  detection.value.analysisDetails.commentDensity
          = Hundredths(DensityBucket(k.comments, k.nonBlank, 20))

\* C3, amended: commentDensity is 0 for a text without non-blank lines;
\* otherwise 75 when the comment lines are more than 30 percent of the
\* non-blank lines, 20 when fewer than 5 percent, 50 otherwise.
CommentDensityOrZero ==
  Returned(detection) =>
    LET k == CaseOf(input.code)
    IN  detection.value.analysisDetails.commentDensity
          = Hundredths(DensityBucket(k.comments, k.nonBlank, 0))

CommentDensityOrZeroWitness ==
  /\ Returned(detection)
  /\ CaseOf(input.code).nonBlank = 0
  /\ detection.value.analysisDetails.commentDensity = 0

\* what the engines returned now and in the remembered round are the same
SameOutcomes ==
  /\ detection.called => detection = memo.detection
  /\ patterns.called => patterns = memo.patterns
  /\ suggestions.called => suggestions = memo.suggestions

\* C4: two calls with the same (code, language, fileName) give the same
\* result, patterns and suggestions, whatever was analysed in between: no
\* state, the match position of a regular expression included, survives a call.
Deterministic == (memo.called /\ memo.input = input) => SameOutcomes

DeterministicWitness ==
  /\ memo.called
  /\ memo.input = input
  /\ AllCalled
  /\ Len(patterns.value) > 0
  /\ SameOutcomes

\* C5: the language and the file name never influence the analysis: the same
\* text with any two (language, fileName) pairs gives the same result,
\* patterns and suggestions.
LanguageIgnored == (memo.called /\ memo.input.code = input.code) => SameOutcomes

LanguageIgnoredWitness ==
  /\ memo.called
  /\ memo.input.code = input.code
  /\ memo.input.language # input.language
  /\ memo.input.fileName # input.fileName
  /\ AllCalled
  /\ Len(patterns.value) > 0
  /\ SameOutcomes

Dispersion(v) ==
    5 * (  v.commentDensity * v.commentDensity
         + v.codeStructureScore * v.codeStructureScore
         + v.namingPatternScore * v.namingPatternScore
         + v.complexityScore * v.complexityScore
         + v.uniformityScore * v.uniformityScore)
  - (  v.commentDensity + v.codeStructureScore + v.namingPatternScore
     + v.complexityScore + v.uniformityScore)
  * (  v.commentDensity + v.codeStructureScore + v.namingPatternScore
     + v.complexityScore + v.uniformityScore)

\* the confidence of every bundle, by its dispersion
ConfidenceTable ==
  {[dispersion |-> Dispersion(b), confidence |-> calculateConfidence(b)] :
     b \in Bundles}

DensityTable ==
  {[nonBlank |-> k.nonBlank, comments |-> k.comments,
    bucket |-> calculateCommentDensity(k.code)] : k \in DensityCases}

\* C8: of two texts with the same number of non-blank lines, the one with at
\* least as many comment lines has a commentDensity at least as high.
DensityMonotone ==
  Returned(detection) =>
    LET k == CaseOf(input.code)
    IN  \A t \in DensityTable :
          (t.nonBlank = k.nonBlank /\ t.comments >= k.comments)
            => Hundredths(t.bucket) >= detection.value.analysisDetails.commentDensity

DensityMonotoneWitness ==
  /\ Returned(detection)
  /\ CaseOf(input.code).nonBlank = 10
  /\ CaseOf(input.code).comments = 3
  /\ detection.value.analysisDetails.commentDensity = 5000
  /\ \E t \in DensityTable : t.nonBlank = 10 /\ t.comments = 4 /\ t.bucket = 75
  /\ \E t \in DensityTable : t.nonBlank = 10 /\ t.comments = 0 /\ t.bucket = 20

\* C9: on every text the generator emits 'Remove Hardcoded Credentials' if
\* and only if the analyzer emits 'Hardcoded Credentials', for each of the
\* names password, secret, apikey and token.  The generator does not look for
\* token.
SameCredentialTrigger ==
  (Returned(patterns) /\ Returned(suggestions)) =>
    (    HardcodedCredentials(<<>>) \in Range(patterns.value)
     <=> RemoveHardcodedCredentials \in Range(suggestions.value))

\* what a line of ScanLines is to the scanner
IsHeader(line) == line \in {"function f() {", "const g = (a) => {", "function h()"}

Opening(line) ==
  IF line \in {"function f() {", "const g = (a) => {", "{", "} else {"} THEN 1 ELSE 0

Closing(line) == IF line \in {"}", "} else {"} THEN 1 ELSE 0

\* C10: when a header line has set start to its 1-based number and the
\* balance to 0, and the balance of braces from the header line on returns to
\* 0 on a line with a '}' at the 0-based index cur, the numbers start..cur+1
\* are appended iff cur - start + 2 > 50, nothing is appended otherwise, and
\* the scanner is outside a function again.
LongFunctionStep ==
  LET cur     == scanner.idx
      line    == scanner'.line
      start   == IF IsHeader(line) THEN cur + 1 ELSE scanner.st.functionStart
      inside  == IsHeader(line) \/ scanner.st.inFunction
      balance == (IF IsHeader(line) THEN 0 ELSE scanner.st.braceCount)
                 + Opening(line) - Closing(line)
  IN  (scanner'.idx = cur + 1 /\ inside /\ balance = 0 /\ Closing(line) > 0) =>
        /\ ~scanner'.st.inFunction
        /\ scanner'.st.lineNumbers =
             scanner.st.lineNumbers
             \o (IF cur - start + 2 > 50
                 THEN [i \in 1..(cur - start + 2) |-> start + i - 1] ELSE <<>>)

LongFunctionRule == [][LongFunctionStep]_scanner

LongFunctionRuleWitness ==
  /\ ~scanner.st.inFunction
  /\ scanner.line = "}"
  /\ Len(scanner.st.lineNumbers) > 50
  /\ scanner.st.lineNumbers = [i \in 1..scanner.idx |-> i]

\* the function the text was built around
FunctionCaseOf(code) == CHOOSE k \in FunctionCases : k.code = code

IsLongFunction(p) == p.patternName = "Long Function"

\* first, first + 1, ..., last
FromTo(first, last) == [i \in 1..(last - first + 1) |-> first + i - 1]

\* C11, as stated: for a text that is one function of 60 lines with balanced
\* braces (of more than 50 lines, in general), detectPatterns emits exactly one
\* pattern named 'Long Function', of type complexity and severity medium, and
\* its lineNumbers run from the function's start line through its end line + 1,
\* start and end being the 1-based numbers of the header line and of the
\* closing line.
LongFunctionThroughNextLine ==
  Returned(patterns) =>
    LET k == FunctionCaseOf(input.code)
        found == SelectSeq(patterns.value, IsLongFunction)
    IN  k.span > 50 =>
          /\ Len(found) = 1
          /\ found[1].patternType = "complexity"
          /\ found[1].severity = "medium"
          /\ found[1].lineNumbers = FromTo(k.start, k.end + 1)

\* C11, amended: the lineNumbers run from the function's start line through
\* its end line (the 0-based index of the closing line, plus 1); a function of
\* 50 lines gives no such pattern.
LongFunctionThroughEnd ==
  Returned(patterns) =>
    LET k == FunctionCaseOf(input.code)
        found == SelectSeq(patterns.value, IsLongFunction)
    IN  IF k.span > 50
        THEN /\ Len(found) = 1
             /\ found[1].patternType = "complexity"
             /\ found[1].severity = "medium"
             /\ found[1].lineNumbers = FromTo(k.start, k.end)
        ELSE Len(found) = 0

LongFunctionThroughEndWitness ==
  /\ Returned(patterns)
  /\ FunctionCaseOf(input.code).span = SpanLines
  /\ FunctionCaseOf(input.code).start = 2
  /\ \E i \in 1..Len(patterns.value) :
       /\ patterns.value[i].patternName = "Long Function"
       /\ patterns.value[i].lineNumbers = FromTo(2, SpanLines + 1)

\* the numbers of lines the text was built with
CommentCaseOf(code) == CHOOSE k \in CommentCases : k.code = code

IsExcessiveComments(p) == p.patternName = "Excessive Comments"

\* C12: with k the number of lines whose trimmed text starts with '//' or '/*'
\* and N the number of lines of the text, blank ones included, detectPatterns
\* emits 'Excessive Comments' (ai-indicator, medium) iff k > 0.3 N, once, and
\* its lineNumbers are then 1, 2, ..., k wherever the comment lines are.
ExcessiveCommentsRule ==
  Returned(patterns) =>
    LET k == CommentCaseOf(input.code)
        found == SelectSeq(patterns.value, IsExcessiveComments)
    IN  IF 10 * k.comments > 3 * k.total
        THEN /\ Len(found) = 1
             /\ found[1].patternType = "ai-indicator"
             /\ found[1].severity = "medium"
             /\ found[1].lineNumbers = FromTo(1, k.comments)
        ELSE Len(found) = 0

ExcessiveCommentsRuleWitness ==
  /\ Returned(patterns)
  /\ CommentCaseOf(input.code).layout = "last"
  /\ CommentCaseOf(input.code).comments = 4
  /\ CommentCaseOf(input.code).total = 13
  /\ \E i \in 1..Len(patterns.value) :
       /\ patterns.value[i].patternName = "Excessive Comments"
       /\ patterns.value[i].lineNumbers = <<1, 2, 3, 4>>

\* the triggers the text was put together from
PatternCaseOf(code) == CHOOSE k \in PatternCases : k.code = code

\* the names of S, in the order of names
Among(names, S) == SelectSeq(names, LAMBDA name : name \in S)

TypeRank ==
  [t \in {"ai-indicator", "style", "complexity", "security"} |->
     CASE t = "ai-indicator" -> 1 [] t = "style" -> 2 [] t = "complexity" -> 3
       [] OTHER -> 4]

\* C13: in the list detectPatterns returns the ai-indicator patterns come
\* before the style patterns, these before the complexity patterns, these
\* before the security patterns; no name occurs twice; and a detector fires
\* whether or not any other does: for a text put together from the triggers of
\* a set of patterns, the names returned are those of the set, each once, in
\* the one fixed order.
PatternOrder ==
  Returned(patterns) =>
    LET v == patterns.value
    IN  /\ \A i, j \in 1..Len(v) :
             i < j => /\ TypeRank[v[i].patternType] <= TypeRank[v[j].patternType]
                      /\ v[i].patternName # v[j].patternName
        /\ [i \in 1..Len(v) |-> v[i].patternName]
             = Among(PatternNames, PatternCaseOf(input.code).triggers)

PatternOrderWitness ==
  /\ Returned(patterns)
  /\ Len(patterns.value) = Len(PatternNames) - 1
  /\ PatternCaseOf(input.code).triggers = Range(PatternNames) \ {"Long Lines"}
  /\ patterns.value[1].patternType = "ai-indicator"
  /\ patterns.value[4].patternType = "style"
  /\ patterns.value[5].patternType = "complexity"
  /\ patterns.value[Len(patterns.value)].patternName = "Eval Usage"

IsEvalUsage(p) == p.patternName = "Eval Usage"

IsAvoidEval(s) == s.title = "Avoid eval()"

IsSecurityPattern(p) == p.patternType = "security"

\* what a call returned, nothing when it threw
ValueOf(o) == IF Returned(o) THEN o.value ELSE <<>>

\* texts with eval calls and no other trigger of a pattern or of a suggestion
EvalOnlyCodes ==
  {JoinLines(Repeat("eval(x)", k) \o last) :
     k \in 1..MaxRepeat, last \in {<<>>, <<"">>, <<"}">>, <<"gift">>}}

\* C14: for a text with a call of eval and no other trigger, detectPatterns
\* returns exactly one security pattern, 'Eval Usage' of severity high, and
\* generateSuggestions returns exactly one suggestion, 'Avoid eval()' of
\* priority high; on every text the pattern is emitted iff the suggestion is,
\* each at most once.  On a text with the letters 'if' and no 'if ('
\* generateSuggestions throws (C1) and emits no suggestion.
EvalPatternAndSuggestion ==
  (patterns.called /\ suggestions.called) =>
    LET evalPatterns    == SelectSeq(ValueOf(patterns), IsEvalUsage)
        evalSuggestions == SelectSeq(ValueOf(suggestions), IsAvoidEval)
        security        == SelectSeq(ValueOf(patterns), IsSecurityPattern)
    IN  /\ Len(evalPatterns) <= 1
        /\ Len(evalSuggestions) <= 1
        /\ Len(evalPatterns) = Len(evalSuggestions)
        /\ input.code \in EvalOnlyCodes =>
             /\ Len(security) = 1
             /\ security[1].patternName = "Eval Usage"
             /\ security[1].severity = "high"
             /\ Returned(suggestions)
             /\ Len(suggestions.value) = 1
             /\ suggestions.value[1].title = "Avoid eval()"
             /\ suggestions.value[1].priority = "high"

\* texts with a var declaration and none of the other eleven triggers
VarOnlyCodes ==
  {JoinLines(Repeat("var total = 1;", k) \o last) :
     k \in 1..MaxRepeat, last \in {<<>>, <<"">>, <<"}">>, <<"// note">>, <<"gift">>}}

\* C15: for a text with a 'var <identifier>' declaration that satisfies none
\* of the other eleven triggers, generateSuggestions returns a list of exactly
\* one element: a style suggestion titled 'Use const/let Instead of var' of
\* priority low.  On a text with the letters 'if' and no 'if (' it throws (C1).
VarOnlySuggestion ==
  (suggestions.called /\ input.code \in VarOnlyCodes) =>
    /\ Returned(suggestions)
    /\ Len(suggestions.value) = 1
    /\ suggestions.value[1].suggestionType = "style"
    /\ suggestions.value[1].title = "Use const/let Instead of var"
    /\ suggestions.value[1].priority = "low"

\* the conditions the text was put together from
SuggestionCaseOf(code) == CHOOSE k \in SuggestionCases : k.code = code

\* C16: in the list generateSuggestions returns each of the 12 titles occurs
\* at most once, however often its condition matches, so the list has at most
\* 12 elements; and a suggestion is emitted whether or not any other is: for a
\* text put together from the conditions of a set of suggestions, the titles
\* returned are those of the set, each once.
OneSuggestionPerCondition ==
  Returned(suggestions) =>
    LET v == suggestions.value
    IN  /\ Len(v) <= 12
        /\ \A i, j \in 1..Len(v) : i < j => v[i].title # v[j].title
        /\ [i \in 1..Len(v) |-> v[i].title]
             = Among(SuggestionTitles, SuggestionCaseOf(input.code).triggers)

OneSuggestionPerConditionWitness ==
  /\ Returned(suggestions)
  /\ SuggestionCaseOf(input.code).triggers = Range(SuggestionTitles)
  /\ Len(suggestions.value) = 12
  /\ suggestions.value[2].title = "Extract Repeated Logic"
  /\ suggestions.value[9].title = "Cache DOM Queries"

\* the patterns of an AnalysisResult are the patterns found, in their order
\* and number
SamePatterns(merged, found) ==
  /\ Len(merged) = Len(found)
  /\ \A i \in 1..Len(found) :
       /\ merged[i].type = found[i].patternType
       /\ merged[i].name = found[i].patternName
       /\ merged[i].severity = found[i].severity
       /\ merged[i].description = found[i].description

\* the suggestions of an AnalysisResult are the suggestions made, in their
\* order and number
SameSuggestions(merged, made) ==
  /\ Len(merged) = Len(made)
  /\ \A i \in 1..Len(made) :
       /\ merged[i].type = made[i].suggestionType
       /\ merged[i].title = made[i].title
       /\ merged[i].description = made[i].description
       /\ merged[i].priority = made[i].priority

\* the numbers, the patterns and the suggestions of an AnalysisResult are
\* the engines' outputs
MergedOf(merged, detectionResult, found, made) ==
  /\ merged.aiProbability = detectionResult.aiProbability
  /\ merged.confidenceScore = detectionResult.confidenceScore
  /\ SamePatterns(merged.patterns, found)
  /\ SameSuggestions(merged.suggestions, made)

\* the call invoked each engine once, with its own text, and what it
\* returned is what the engines say of that text
ComposedOfEngines(frame) ==
  /\ frame.invoked = [detection   |-> <<frame.code>>,
                      patterns    |-> <<frame.code>>,
                      suggestions |-> <<frame.code>>]
  /\ Returned(frame.result) =>
       MergedOf(frame.result.value,
                DetectionResult(MetricBundle(frame.code)),
                detectPatterns(frame.code, frame.language),
                generateSuggestions(frame.code, frame.language).value)

\* C17 as stated: every call of analyzeCode invokes the three engines exactly
\* once each, with the code it was given, and the numbers, patterns and
\* suggestions it returns are the engines' outputs, in their order and number.
CoordinatorComposition ==
  analysis.pc = "done" => ComposedOfEngines(analysis)

\* C17 amended: every call of analyzeCode whose insert into code_submissions
\* succeeds invokes the three engines exactly once each, with the code it was
\* given, and the numbers, patterns and suggestions it returns are the
\* engines' outputs, in their order and number.
CoordinatorCompositionAfterInsert ==
  (/\ analysis.pc = "done"
   /\ analysis.result # Throw("Failed to create code submission"))
    => ComposedOfEngines(analysis)

\* a call returned the patterns and the suggestion of a text with white
\* space around it
CoordinatorCompositionWitness ==
  /\ analysis.pc = "done"
  /\ Returned(analysis.result)
  /\ analysis.code = " // c\n eval(x)\n"
  /\ Len(analysis.result.value.patterns) = 2
  /\ Len(analysis.result.value.suggestions) = 1

\* a code_submissions row with that id and that user_id exists
SubmissionOf(submissionId, userId) ==
  \E i \in 1..Len(store.code_submissions) :
    /\ store.code_submissions[i].id = submissionId
    /\ store.code_submissions[i].user_id = userId

\* C18: getSubmissionDetails(submissionId, userId) returns only when a
\* code_submissions row with that id and that user_id exists, and what it
\* returns is that submission; for an id owned by a different user or not
\* existing it throws 'Submission not found' and issues no query against
\* detection_results, code_patterns or developer_suggestions.
OwnershipIsolation ==
  /\ Returned(retrieval.result) =>
       /\ SubmissionOf(retrieval.submissionId, retrieval.userId)
       /\ retrieval.result.value.submission.id = retrieval.submissionId
       /\ retrieval.result.value.submission.user_id = retrieval.userId
  /\ (retrieval.pc # "idle"
      /\ ~SubmissionOf(retrieval.submissionId, retrieval.userId)) =>
       /\ retrieval.issued = <<"code_submissions">>
       /\ retrieval.pc = "done" =>
            retrieval.result = Throw("Submission not found")

\* the session user asked for a stored submission of another user, and the
\* call threw after its first query
OwnershipIsolationWitness ==
  /\ retrieval.pc = "done"
  /\ retrieval.userId = store.uid
  /\ \E i \in 1..Len(store.code_submissions) :
       /\ store.code_submissions[i].id = retrieval.submissionId
       /\ store.code_submissions[i].user_id # retrieval.userId
  /\ retrieval.result = Throw("Submission not found")
  /\ retrieval.issued = <<"code_submissions">>

\* a header line while the scanner is inside an unfinished function
RestartStep ==
  LET cur  == scanner.idx
      line == scanner'.line
  IN  (scanner'.idx = cur + 1 /\ IsHeader(line) /\ scanner.st.inFunction) =>
        /\ scanner'.st.functionStart = cur + 1
        /\ scanner'.st.braceCount = Opening(line) - Closing(line)
        /\ scanner'.st.inFunction
        /\ scanner'.st.lineNumbers = scanner.st.lineNumbers

\* the line that ends a function is attributed to the latest header: the
\* numbers appended, if any, run from that header's line
AttributionStep ==
  LET cur  == scanner.idx
      line == scanner'.line
  IN  /\ (scanner'.idx = cur + 1 /\ ~IsHeader(line)) =>
           scanner'.st.functionStart = scanner.st.functionStart
      /\ (scanner'.idx = cur + 1
          /\ scanner'.st.lineNumbers # scanner.st.lineNumbers) =>
           /\ ~scanner'.st.inFunction
           /\ Closing(line) > 0
           /\ scanner'.st.lineNumbers =
                scanner.st.lineNumbers \o FromTo(scanner'.st.functionStart, cur + 1)
           /\ scanner'.outer < scanner'.st.functionStart

\* C19: a header line met inside an unfinished function overwrites the start
\* line with its own number and resets the balance to 0 before its braces are
\* counted; the outer function is never reported, and the next line with a
\* '}' on which the balance is 0 is attributed to the inner header.
ScannerRestart ==
  /\ [][RestartStep /\ AttributionStep]_scanner
  /\ [](scanner.outer > 0 =>
          \A i \in 1..Len(scanner.st.lineNumbers) :
            scanner.st.lineNumbers[i] # scanner.outer)

\* the header on line 1 was overwritten by the header on line 2, and the
\* function that ends on line 52 is reported from line 2
ScannerRestartWitness ==
  /\ scanner.outer = 1
  /\ scanner.idx = 52
  /\ scanner.line = "}"
  /\ ~scanner.st.inFunction
  /\ scanner.st.functionStart = 2
  /\ scanner.st.lineNumbers = FromTo(2, 52)

\* C20: when the input has no non-blank line, every quotient of the
\* Detection Engine over a count of lines or tokens (comment density, mean
\* line length, control flow ratio, variance of the line lengths, naming
\* ratio) is a defined finite value, not NaN or Infinity.  The mean, the
\* control flow ratio and the variance are 0/0.
GuardedQuotients ==
  (detection.called /\ Len(NonBlankLines(input.code)) = 0) =>
    /\ calculateCommentDensity(input.code) = 0
    /\ IsFinite(Quotient(MatchCount(descriptiveNamePattern, input.code) * 100,
                         Max(MatchCount(camelCasePattern, input.code), 1)))
    /\ IsFinite(avgLineLength(input.code))
    /\ IsFinite(complexityRatio(input.code))
    /\ IsFinite(lineLengthVariance(input.code))

\* the rows for code_patterns are the patterns found, one each, in order,
\* with their line numbers and their literal type and severity
RowsOfPatterns(rows, submissionId, found) ==
  /\ Len(rows) = Len(found)
  /\ \A i \in 1..Len(found) :
       /\ rows[i].submission_id = submissionId
       /\ rows[i].pattern_type = found[i].patternType
       /\ rows[i].pattern_type \in {"ai-indicator", "style", "complexity", "security"}
       /\ rows[i].pattern_name = found[i].patternName
       /\ rows[i].severity = found[i].severity
       /\ rows[i].severity \in {"high", "medium", "low"}
       /\ rows[i].description = found[i].description
       /\ rows[i].line_numbers = found[i].lineNumbers
       /\ \A k \in 1..Len(rows[i].line_numbers) : rows[i].line_numbers[k] \in Nat

\* the rows for developer_suggestions are the suggestions made, one each, in
\* order, with their code snippets
RowsOfSuggestions(rows, submissionId, made) ==
  /\ Len(rows) = Len(made)
  /\ \A i \in 1..Len(made) :
       /\ rows[i].submission_id = submissionId
       /\ rows[i].suggestion_type = made[i].suggestionType
       /\ rows[i].suggestion_type \in {"refactor", "security", "performance", "style"}
       /\ rows[i].title = made[i].title
       /\ rows[i].description = made[i].description
       /\ rows[i].code_snippet = made[i].codeSnippet
       /\ rows[i].priority = made[i].priority

IssuedTo(frame, table) == \E i \in 1..Len(frame.issued) : frame.issued[i] = table

\* what a call has handed to the store, against what the engines say of
\* its text
HandedOver(frame, found, made) ==
  /\ IssuedTo(frame, "code_patterns") =>
       /\ Len(found) > 0
       /\ RowsOfPatterns(frame.sent.code_patterns, frame.submission, found)
  /\ IssuedTo(frame, "developer_suggestions") =>
       /\ Len(made.value) > 0
       /\ RowsOfSuggestions(frame.sent.developer_suggestions, frame.submission,
                            made.value)
  /\ Returned(frame.result) =>
       /\ Len(found) > 0 => IssuedTo(frame, "code_patterns")
       /\ Len(made.value) > 0 => IssuedTo(frame, "developer_suggestions")

\* C21: the rows analyzeCode hands to the store are one per detected pattern
\* and one per suggestion, in the engines' order, each pattern row with its
\* lineNumbers as the same sequence of integers and its type and severity as
\* the literal strings, each suggestion row with its codeSnippet; an insert
\* into code_patterns or developer_suggestions is issued only when the list
\* is not empty.
LosslessPersistence ==
  IssuedTo(analysis, "detection_results") =>
    HandedOver(analysis, detectPatterns(analysis.code, analysis.language),
               generateSuggestions(analysis.code, analysis.language))

\* a call handed over two pattern rows, the first with a line number, and a
\* suggestion row with its snippet
LosslessPersistenceWitness ==
  /\ Returned(analysis.result)
  /\ Len(analysis.sent.code_patterns) = 2
  /\ analysis.sent.code_patterns[1].line_numbers = <<1>>
  /\ analysis.sent.code_patterns[2].line_numbers = <<>>
  /\ Len(analysis.sent.developer_suggestions) = 1
  /\ analysis.sent.developer_suggestions[1].code_snippet = AvoidEval.codeSnippet

NoEngineCalled == ~detection.called /\ ~patterns.called /\ ~suggestions.called

\* the submission of the call is stored
SubmissionStored(frame) ==
  \E i \in 1..Len(store.code_submissions) :
    /\ store.code_submissions[i].id = frame.submission
    /\ store.code_submissions[i].user_id = frame.userId
    /\ store.code_submissions[i].code_content = frame.code

\* where a call stands, against what it has done so far
SubmissionFirstState ==
  /\ analysis.pc = "insertSubmission" =>
       /\ NoEngineCalled
       /\ analysis.invoked = NoneInvoked
       /\ analysis.issued = <<"code_submissions">>
  /\ (analysis.pc # "idle" /\ (~NoEngineCalled \/ Len(analysis.issued) > 1)) =>
       /\ analysis.issued[1] = "code_submissions"
       /\ SubmissionStored(analysis)
       /\ analysis.result # Throw("Failed to create code submission")
  /\ analysis.pc = "done" =>
       (    analysis.result = Throw("Failed to create code submission")
        <=> ~SubmissionStored(analysis))

\* the answer to the insert into code_submissions: without a row the call
\* throws at once and nothing else happens
SubmissionFirstStep ==
  (analysis.pc = "insertSubmission" /\ analysis'.pc # "insertSubmission") =>
    IF store'.code_submissions = store.code_submissions
    THEN /\ analysis'.pc = "done"
         /\ analysis'.result = Throw("Failed to create code submission")
         /\ store' = store
         /\ UNCHANGED <<detection, patterns, suggestions, dashboard>>
    ELSE /\ store'.detection_results = store.detection_results
         /\ store'.code_patterns = store.code_patterns
         /\ store'.developer_suggestions = store.developer_suggestions
         /\ analysis'.result # Throw("Failed to create code submission")

\* C22: in analyzeCode the insert into code_submissions completes before any
\* engine runs and before any write to detection_results, code_patterns or
\* developer_suggestions; if it returns an error or no row, analyzeCode throws
\* 'Failed to create code submission', no engine is invoked and no other
\* table is written.
SubmissionFirst == []SubmissionFirstState /\ [][SubmissionFirstStep]_vars

\* a call failed on its first insert: no engine has run, nothing is stored
SubmissionFirstWitness ==
  /\ analysis.pc = "done"
  /\ analysis.result = Throw("Failed to create code submission")
  /\ analysis.code = " // c\n eval(x)\n"
  /\ analysis.userId = store.uid
  /\ NoEngineCalled
  /\ analysis.issued = <<"code_submissions">>
  /\ store.code_submissions = <<>>
  /\ store.detection_results = <<>>

\* the rows of a table that belong to a submission
RowsFor(rows, submissionId) ==
  SelectSeq(rows, LAMBDA row : row.submission_id = submissionId)

\* C23: whenever analyzeCode resolves with a result, the store holds for the
\* returned submissionId exactly one detection_results row, one code_patterns
\* row per returned pattern and one developer_suggestions row per returned
\* suggestion: a failed insert into one of the three tables does not go
\* unnoticed.  The code does not read the errors of these inserts.
StoredComplete ==
  Returned(analysis.result) =>
    /\ Len(RowsFor(store.detection_results, analysis.result.value.submissionId)) = 1
    /\ Len(RowsFor(store.code_patterns, analysis.result.value.submissionId))
         = Len(analysis.result.value.patterns)
    /\ Len(RowsFor(store.developer_suggestions, analysis.result.value.submissionId))
         = Len(analysis.result.value.suggestions)

\* a case of the text; texts of different cases may coincide, with the same
\* number of lines
RunCaseOf(code) == CHOOSE k \in RunCases : k.code = code

\* the positions after which a list of numbers does not go on with the next
\* integer, with 0 and the last position
Breaks(numbers) ==
  {0, Len(numbers)} \cup {i \in 1..(Len(numbers) - 1) : numbers[i + 1] # numbers[i] + 1}

\* strictly increasing numbers of lines of the text, in runs of more than 50
\* consecutive integers
WellFormedRuns(numbers, total) ==
  /\ Len(numbers) > 50
  /\ \A i \in 1..Len(numbers) : numbers[i] \in 1..total
  /\ \A i \in 1..(Len(numbers) - 1) : numbers[i] < numbers[i + 1]
  /\ \A a \in Breaks(numbers), b \in Breaks(numbers) : a < b => b - a > 50

\* C24: the lineNumbers of an emitted 'Long Function' pattern are strictly
\* increasing without duplicates, every element lies between 1 and the
\* number of lines of the input, the list is a concatenation of runs of more
\* than 50 consecutive integers, and runs of different functions do not
\* overlap.
LongFunctionWellFormed ==
  Returned(patterns) =>
    \A i \in 1..Len(patterns.value) :
      IsLongFunction(patterns.value[i]) =>
        WellFormedRuns(patterns.value[i].lineNumbers, RunCaseOf(input.code).total)

\* two functions of 51 lines with a line between them: two runs
LongFunctionWellFormedWitness ==
  /\ Returned(patterns)
  /\ \E i \in 1..Len(patterns.value) :
       /\ IsLongFunction(patterns.value[i])
       /\ patterns.value[i].lineNumbers = FromTo(1, 51) \o FromTo(53, 103)

\* the steps of handleAnalyze: the flag is set when analyzeCode is called,
\* it is cleared only when the call is over, and the step that clears it
\* replaces currentResult by the result of a call that resolved and leaves
\* it alone otherwise
AnalysingStep ==
  /\ (analysis'.pc = "insertSubmission" /\ analysis.pc # "insertSubmission") =>
       (~dashboard.isAnalyzing /\ dashboard'.isAnalyzing)
  /\ (dashboard.isAnalyzing /\ ~dashboard'.isAnalyzing) =>
       /\ analysis.pc = "done"
       /\ dashboard'.currentResult =
            IF Returned(analysis.result) THEN analysis.result.value
            ELSE dashboard.currentResult
  /\ dashboard.isAnalyzing =>
       \/ dashboard'.currentResult = dashboard.currentResult
       \/ ~dashboard'.isAnalyzing
       \/ "select" \in dashboard.awaiting /\ "select" \notin dashboard'.awaiting

\* C25: isAnalyzing becomes true when handleAnalyze starts and is eventually
\* false again once the analyzeCode promise settles, resolved or rejected:
\* the Analyze button never stays disabled forever for non-blank code; and
\* currentResult is replaced only when analyzeCode resolved.
AnalysingClears ==
  /\ dashboard.isAnalyzing ~> ~dashboard.isAnalyzing
  /\ [][AnalysingStep]_vars

\* analyzeCode rejected, the flag is clear again and nothing is shown
AnalysingClearsWitness ==
  /\ dashboard.settled["analyze"] = "rejected"
  /\ analysis.pc = "done"
  /\ analysis.result.threw
  /\ ~dashboard.isAnalyzing
  /\ dashboard.currentResult = Null

\* what the handler that started last obtained
LatestResult ==
  IF dashboard.latest = "analyze" THEN analysis.result.value
  ELSE ResultOfDetails(retrieval.submissionId, retrieval.result.value)

\* C26: for every interleaving of a handleAnalyze call and
\* handleSelectSubmission calls, once all of them have completed successfully
\* currentResult is the result of the request that was started last: a
\* response to an earlier request never overwrites the result of a later
\* one.  The handlers set currentResult in the order the calls end.
LatestRequestShown ==
  (/\ dashboard.awaiting = {}
   /\ dashboard.settled["analyze"] = "resolved"
   /\ dashboard.settled["select"] = "resolved") =>
    dashboard.currentResult = LatestResult
=============================================================================
